---------------------------- MODULE Spec2Model ----------------------------
(***************************************************************************)
(* A model of skif::FilterResult (src/core/SkImageFilterTypes.cpp): the    *)
(* lazy image value of the image-filter pipeline, and the operations       *)
(* applyCrop, applyColorFilter, applyTransform, resolve and rescale, with  *)
(* the backend's surface allocation as a nondeterministic outcome.         *)
(*                                                                         *)
(* Numbers.  Layer-space rectangles are integer (SkIRect).  Matrices are   *)
(* scale+translate with integer scale factors and translations kept in     *)
(* half pixels (tx = 1 is a translation by 0.5).  Every float the code     *)
(* computes from these lies on a lattice far coarser than kRoundEpsilon,   *)
(* so floor(x + eps), ceil(x - eps) and the eps-tolerant comparisons are   *)
(* computed exactly as floor(x), ceil(x) and =, <=.                        *)
(***************************************************************************)
EXTENDS Integers, Sequences, FiniteSets, TLC

VARIABLES
    fr,        \* the FilterResult the last operation returned (the next receiver)
    prev,      \* the receiver of the last operation
    op,        \* the last operation and its arguments
    ctx,       \* the Context of the last operation: its desired output
    be,        \* what the last operation did to the backend (surfaces, devices)
    nops,      \* operations applied so far
    rs,        \* one axis of a rescale: its factor, step count and step scales
    mapping,   \* a Mapping: its three matrices
    mcall,     \* the last call on the Mapping, what it returned, the Mapping before
    pipelines, \* the GlobalCache: per kind of pipeline, its entries, latest use first
    recorders, \* each Recorder: where it is in its query, create, add sequence
    firstAdded,\* per kind and key, the pipeline the first add call passed in
    call,      \* the last call of a static helper: its arguments and what it returned
    dr         \* one call of FilterResult::draw: where it is, its device, its frames

vars == <<fr, prev, op, ctx, be, nops, rs, mapping, mcall, pipelines, recorders, firstAdded,
          call, dr>>
\* what the operations of a FilterResult work on, and what they leave alone
filterVars == <<fr, prev, op, ctx, be, nops>>
otherVars == <<rs, mapping, mcall, pipelines, recorders, firstAdded, call, dr>>

---------------------------------------------------------------------------
(* Bounds of the model *)

\* Operations per behaviour.
MaxOps == 2
\* Rescale factors tried on one axis: 1/100 .. MaxPercent/100.
MaxPercent == 100
\* Width of the source rectangle those factors are applied to.
SrcSize == 100
\* Calls on one Mapping.
MaxMappingCalls == 2
\* Recorders that share the GlobalCache.
MaxRecorders == 3
\* Distinct UniqueKeys the Recorders ask for.
MaxKeys == 2
\* Entries one pipeline cache of the GlobalCache holds.
MaxPipelines == 2
\* makeDevice / snapSpecial calls whose outcome the backend may choose to fail.
MaxDevCalls == 2
\* rescale factors are 1/2^k, k in 0..MaxShift.
MaxShift == 2
\* |scale factor| of a FilterResult's transform the model follows.
MaxScale == 4

---------------------------------------------------------------------------
(* Integer helpers *)

Min(a, b) == IF a <= b THEN a ELSE b
Max(a, b) == IF a >= b THEN a ELSE b
Abs(a) == IF a < 0 THEN -a ELSE a
\* floor(a / b) and ceil(a / b) for any b # 0
FloorDiv(a, b) == IF b > 0 THEN a \div b ELSE (-a) \div (-b)
CeilDiv(a, b) == -FloorDiv(-a, b)

RECURSIVE Pow2(_)
Pow2(n) == IF n <= 0 THEN 1 ELSE 2 * Pow2(n - 1)

---------------------------------------------------------------------------
(* SkIRect, half-open [l, r) x [t, b) *)

Rect(l, t, r, b) == [l |-> l, t |-> t, r |-> r, b |-> b]
EmptyRect == Rect(0, 0, 0, 0)
IsEmpty(a) == a.r <= a.l \/ a.b <= a.t
RawIntersect(a, b) == Rect(Max(a.l, b.l), Max(a.t, b.t), Min(a.r, b.r), Min(a.b, b.b))
\* SkIRect::intersect returns false, and leaves the rectangle alone, when the
\* two do not overlap.
Intersects(a, b) == ~IsEmpty(a) /\ ~IsEmpty(b) /\ ~IsEmpty(RawIntersect(a, b))
IntersectOr(a, b) == IF Intersects(a, b) THEN RawIntersect(a, b) ELSE a
\* SkIRect::contains(SkIRect): neither may be empty.
Contains(a, b) ==
    /\ ~IsEmpty(a) /\ ~IsEmpty(b)
    /\ a.l <= b.l /\ a.t <= b.t /\ a.r >= b.r /\ a.b >= b.b
Outset(a, dx, dy) == Rect(a.l - dx, a.t - dy, a.r + dx, a.b + dy)
Width(a) == a.r - a.l
Height(a) == a.b - a.t

\* SkRectPriv::ClosestDisjointEdge: per axis, the row/column of src nearest to
\* dst when they do not overlap on that axis, else src pinned to dst.
Pin(x, lo, hi) == Max(lo, Min(x, hi))
ClosestDisjointEdge(src, dst) ==
    IF IsEmpty(src) \/ IsEmpty(dst) THEN EmptyRect
    ELSE LET l == IF src.r <= dst.l THEN src.r - 1
                  ELSE IF src.l >= dst.r THEN src.l
                  ELSE Pin(src.l, dst.l, dst.r)
             r == IF src.r <= dst.l THEN src.r
                  ELSE IF src.l >= dst.r THEN src.l + 1
                  ELSE Pin(src.r, dst.l, dst.r)
             t == IF src.b <= dst.t THEN src.b - 1
                  ELSE IF src.t >= dst.b THEN src.t
                  ELSE Pin(src.t, dst.t, dst.b)
             b == IF src.b <= dst.t THEN src.b
                  ELSE IF src.t >= dst.b THEN src.t + 1
                  ELSE Pin(src.b, dst.t, dst.b)
         IN Rect(l, t, r, b)

\* relevantSubset, wrongly keeping the whole source for every tile mode
relevantSubsetWhole(src, dstRect, tileMode) ==
    IF tileMode = "clamp" /\ ~Intersects(src, dstRect)
    THEN ClosestDisjointEdge(src, dstRect)
    ELSE src

\* LayerSpace<SkIRect>::relevantSubset
relevantSubset(src, dstRect, tileMode) ==
    IF tileMode \in {"decal", "clamp"}
    THEN IF Intersects(src, dstRect) THEN RawIntersect(src, dstRect)
         ELSE IF tileMode = "decal" THEN EmptyRect
         ELSE ClosestDisjointEdge(src, dstRect)
    ELSE src

---------------------------------------------------------------------------
(* LayerSpace<SkMatrix>: scale (sx, sy), translate (tx, ty)/2 *)

Matrix(sx, sy, tx, ty) == [sx |-> sx, sy |-> sy, tx |-> tx, ty |-> ty]
Identity == Matrix(1, 1, 0, 0)
Translate(x, y) == Matrix(1, 1, 2 * x, 2 * y)
\* m.postConcat(t): first m, then t
postConcat(m, t) ==
    Matrix(t.sx * m.sx, t.sy * m.sy, t.sx * m.tx + t.tx, t.sy * m.ty + t.ty)

is_nearly_integer_translation(m) ==
    m.sx = 1 /\ m.sy = 1 /\ m.tx % 2 = 0 /\ m.ty % 2 = 0
\* the 'out' parameter of is_nearly_integer_translation
IntegerOrigin(m) == [x |-> m.tx \div 2, y |-> m.ty \div 2]

\* The float rectangle m maps the integer rectangle a to, in half pixels.
MapRectF(m, a) ==
    LET sorted(x0, x1, y0, y1) ==
            Rect(Min(x0, x1), Min(y0, y1), Max(x0, x1), Max(y0, y1))
    IN sorted(2 * m.sx * a.l + m.tx, 2 * m.sx * a.r + m.tx,
              2 * m.sy * a.t + m.ty, 2 * m.sy * a.b + m.ty)

\* Mapping::map<SkIRect>, wrongly rounding out by a further pixel
mapRoundedTooFar(m, a) ==
    LET roundOut(f) == Rect(FloorDiv(f.l, 2) - 1, FloorDiv(f.t, 2) - 1,
                            CeilDiv(f.r, 2) + 1, CeilDiv(f.b, 2) + 1)
    IN IF IsEmpty(a) THEN EmptyRect ELSE roundOut(MapRectF(m, a))

\* Mapping::map<SkIRect> for a scale+translate matrix: rounds out.
MapIRect(m, a) ==
    LET roundOut(f) == Rect(FloorDiv(f.l, 2), FloorDiv(f.t, 2),
                            CeilDiv(f.r, 2), CeilDiv(f.b, 2))
    IN IF IsEmpty(a) THEN EmptyRect ELSE roundOut(MapRectF(m, a))

\* LayerSpace<SkMatrix>::inverseMapRect(SkIRect): [ok, rect]
inverseMapRect(m, a) ==
    IF IsEmpty(a) THEN [ok |-> TRUE, rect |-> EmptyRect]
    ELSE IF m.sx = 0 \/ m.sy = 0 THEN [ok |-> FALSE, rect |-> EmptyRect]
    ELSE LET lo(p, q, t, s) == IF s > 0 THEN FloorDiv(2 * p - t, 2 * s)
                                        ELSE FloorDiv(2 * q - t, 2 * s)
             hi(p, q, t, s) == IF s > 0 THEN CeilDiv(2 * q - t, 2 * s)
                                        ELSE CeilDiv(2 * p - t, 2 * s)
         IN [ok |-> TRUE,
             rect |-> Rect(lo(a.l, a.r, m.tx, m.sx), lo(a.t, a.b, m.ty, m.sy),
                           hi(a.l, a.r, m.tx, m.sx), hi(a.t, a.b, m.ty, m.sy))]

\* SkRectPriv::QuadContainsRect(m, a, b, tol): does a, mapped by m, contain b.
\* An empty b is contained in anything; an empty a contains nothing else.
QuadContainsRect(m, a, b) ==
    LET covers(f) == f.l <= 2 * b.l /\ f.t <= 2 * b.t /\ f.r >= 2 * b.r /\ f.b >= 2 * b.b
    IN IF IsEmpty(b) THEN TRUE
       ELSE IF IsEmpty(a) THEN FALSE
       ELSE covers(MapRectF(m, a))

\* SkRectPriv::QuadContainsRectMask(m, a, b, tol): per edge of a (T, R, B, L),
\* are all corners of b on its inside once m has mapped it.  a and b are
\* float rectangles in half pixels; a is inset by a further 'eps' times
\* kRoundEpsilon, which | scale | stretches and the tolerance forgives when
\* the stretched inset is within it.
QuadContainsRectMask(m, a, eps, b) ==
    LET forgiven(scale) == Abs(scale) * eps <= 1
        \* the edge at 'at' of a, whose inside is towards 'other'
        inside(scale, trans, at, other, lo, hi) ==
            IF scale * at < scale * other
            THEN lo > scale * at + trans \/ (lo = scale * at + trans /\ forgiven(scale))
            ELSE hi < scale * at + trans \/ (hi = scale * at + trans /\ forgiven(scale))
        all == [T |-> TRUE, R |-> TRUE, B |-> TRUE, L |-> TRUE]
        none == [T |-> FALSE, R |-> FALSE, B |-> FALSE, L |-> FALSE]
    IN IF b.l >= b.r \/ b.t >= b.b THEN all
       ELSE IF a.l >= a.r \/ a.t >= a.b \/ m.sx = 0 \/ m.sy = 0 THEN none
       ELSE [T |-> inside(m.sy, m.ty, a.t, a.b, b.t, b.b),
             R |-> inside(m.sx, m.tx, a.r, a.l, b.l, b.r),
             B |-> inside(m.sy, m.ty, a.b, a.t, b.t, b.b),
             L |-> inside(m.sx, m.tx, a.l, a.r, b.l, b.r)]

\* SkMatrix::getMinMaxScales, and both factors within 0.2 of 1
nearUnitScales(m) == Abs(m.sx) = 1 /\ Abs(m.sy) = 1

---------------------------------------------------------------------------
(* SkSamplingOptions *)

Sampling(maxAniso, useCubic, cubic, filter) ==
    [maxAniso |-> maxAniso, useCubic |-> useCubic, cubic |-> cubic, filter |-> filter]
kNearestNeighbor == Sampling(0, FALSE, 0, "nearest")
kDefaultSampling == Sampling(0, FALSE, 0, "linear")
\* SkSamplingOptions(SkCubicResampler): cubic names the (B, C) pair
CubicSampling(c) == Sampling(0, TRUE, c, "nearest")
\* SkSamplingOptions::Aniso(n)
AnisoSampling(n) == Sampling(Max(n, 1), FALSE, 0, "nearest")
isAniso(s) == s.maxAniso # 0

---------------------------------------------------------------------------
(* SkColorFilter: none (<<>>), or a map of colors 1..3; color 1 is            *)
(* transparent black.                                                         *)

NoFilter == << >>
Transparent == 1
affectsTransparentBlack(cf) == cf[Transparent] # Transparent
\* SkColorFilters::Compose(outer, inner): inner runs first
ComposeCF(outer, inner) ==
    IF inner = NoFilter THEN outer
    ELSE IF outer = NoFilter THEN inner
    ELSE <<outer[inner[1]], outer[inner[2]], outer[inner[3]]>>

---------------------------------------------------------------------------
(* SkSpecialImage: a handle to immutable pixels (id), the subset of them this *)
(* image shows (x, y, w, h) and the size of the backing store.                *)

Image(id, x, y, w, h, bw, bh) ==
    [id |-> id, x |-> x, y |-> y, w |-> w, h |-> h, bw |-> bw, bh |-> bh]
NoImage == Image(0, 0, 0, 0, 0, 0, 0)
\* SkSpecialImage::makeSubset(subset): subset is relative to this image
makeSubset(img, s) ==
    Image(img.id, img.x + s.l, img.y + s.t, Width(s), Height(s), img.bw, img.bh)


---------------------------------------------------------------------------
(* The backend, as one operation sees it.  orc says which of the operation's  *)
(* makeDevice calls return no device and which of its snapSpecial calls       *)
(* return no image; bk counts what the operation did.                         *)

Oracle(dev, snap) == [dev |-> dev, snap |-> snap]
NoSurface == [fCanvas |-> FALSE, fDstBounds |-> EmptyRect, snapped |-> 0]
FreshBackend(id) ==
    [marks |-> 0,        \* ctx.markNewSurface() calls
     calls |-> 0,        \* Backend::makeDevice calls
     firstFail |-> 0,    \* the first makeDevice call that returned null, or 0
     snaps |-> 0,        \* SkDevice::snapSpecial calls
     held |-> 0,         \* canvases acquired and not yet released
     surface |-> NoSurface,  \* the AutoSurface made last
     iters |-> 0,        \* iterations of rescale's loop
     nextId |-> id]

\* AutoSurface's constructor, wrongly keeping a canvas when makeDevice gave no device
AutoSurfaceUnchecked(bk, orc, dstBounds) ==
    LET asked == ~IsEmpty(dstBounds)
        idx == bk.calls + 1
        device == asked /\ idx \notin orc.dev
    IN [bk EXCEPT !.marks = @ + 1,
                  !.calls = IF asked THEN idx ELSE @,
                  !.firstFail = IF asked /\ ~device /\ @ = 0 THEN idx ELSE @,
                  !.held = IF asked THEN @ + 1 ELSE @,
                  !.surface = [fCanvas |-> asked, fDstBounds |-> dstBounds,
                               snapped |-> 0]]

\* FilterResult::AutoSurface::AutoSurface
AutoSurfaceNew(bk, orc, dstBounds) ==
    LET asked == ~IsEmpty(dstBounds)
        idx == bk.calls + 1
        device == asked /\ idx \notin orc.dev
    IN [bk EXCEPT !.marks = @ + 1,
                  !.calls = IF asked THEN idx ELSE @,
                  !.firstFail = IF asked /\ ~device /\ @ = 0 THEN idx ELSE @,
                  !.held = IF device THEN @ + 1 ELSE @,
                  !.surface = [fCanvas |-> device, fDstBounds |-> dstBounds,
                               snapped |-> 0]]

\* AutoSurface::snap, wrongly without fCanvas.reset()
snapKeepingCanvas(bk, orc) ==
    LET s == bk.surface
        idx == bk.snaps + 1
        ok == idx \notin orc.snap
    IN IF s.fCanvas
       THEN [image |-> IF ok THEN Image(bk.nextId, 0, 0, Width(s.fDstBounds),
                                        Height(s.fDstBounds), Width(s.fDstBounds),
                                        Height(s.fDstBounds))
                       ELSE NoImage,
             origin |-> [x |-> s.fDstBounds.l, y |-> s.fDstBounds.t],
             bk |-> [bk EXCEPT !.snaps = idx,
                               !.nextId = IF ok THEN @ + 1 ELSE @,
                               !.surface = [s EXCEPT !.snapped = @ + 1]]]
       ELSE [image |-> NoImage, origin |-> [x |-> 0, y |-> 0], bk |-> bk]

\* FilterResult::AutoSurface::snap, on the AutoSurface made last:
\* [image, origin, bk]
AutoSurfaceSnap(bk, orc) ==
    LET s == bk.surface
        idx == bk.snaps + 1
        ok == idx \notin orc.snap
    IN IF s.fCanvas
       THEN [image |-> IF ok THEN Image(bk.nextId, 0, 0, Width(s.fDstBounds),
                                        Height(s.fDstBounds), Width(s.fDstBounds),
                                        Height(s.fDstBounds))
                       ELSE NoImage,
             origin |-> [x |-> s.fDstBounds.l, y |-> s.fDstBounds.t],
             bk |-> [bk EXCEPT !.snaps = idx,
                               !.held = @ - 1,
                               !.nextId = IF ok THEN @ + 1 ELSE @,
                               !.surface = [s EXCEPT !.fCanvas = FALSE,
                                                     !.snapped = @ + 1]]]
       ELSE [image |-> NoImage, origin |-> [x |-> 0, y |-> 0], bk |-> bk]

---------------------------------------------------------------------------
(* FilterResult *)

\* FilterResult(image, origin): a decal-tiled image at origin, or, with no
\* image, the empty result.
MakeFilterResult(image, origin) ==
    LET xform == Translate(origin.x, origin.y)
    IN [image |-> image,
        transform |-> xform,
        sampling |-> kDefaultSampling,
        tileMode |-> "decal",
        colorFilter |-> NoFilter,
        layerBounds |-> IF image = NoImage THEN EmptyRect
                        ELSE MapIRect(xform, Rect(0, 0, image.w, image.h))]
\* FilterResult()
EmptyResult == MakeFilterResult(NoImage, [x |-> 0, y |-> 0])

\* extract_subset, wrongly dropping the last column of the subset
extractSubsetShort(image, origin, dstBounds, clampSrcIfDisjoint) ==
    LET subset(imageBounds) ==
            IF IsEmpty(imageBounds)
            THEN [image |-> NoImage, origin |-> [x |-> 0, y |-> 0]]
            ELSE [image |-> makeSubset(image, Rect(imageBounds.l - origin.x,
                                                    imageBounds.t - origin.y,
                                                    imageBounds.r - origin.x,
                                                    imageBounds.b - origin.y)),
                  origin |-> [x |-> imageBounds.l, y |-> imageBounds.t]]
        short(whole) == subset([whole EXCEPT !.r = IF Width(whole) > 1 THEN @ - 1 ELSE @])
    IN short(relevantSubset(Rect(origin.x, origin.y, origin.x + image.w, origin.y + image.h),
                            dstBounds, IF clampSrcIfDisjoint THEN "clamp" ELSE "decal"))

\* extract_subset: [image, origin]
extract_subset(image, origin, dstBounds, clampSrcIfDisjoint) ==
    LET subset(imageBounds) ==
            IF IsEmpty(imageBounds)
            THEN [image |-> NoImage, origin |-> [x |-> 0, y |-> 0]]
            ELSE [image |-> makeSubset(image, Rect(imageBounds.l - origin.x,
                                                    imageBounds.t - origin.y,
                                                    imageBounds.r - origin.x,
                                                    imageBounds.b - origin.y)),
                  origin |-> [x |-> imageBounds.l, y |-> imageBounds.t]]
    IN subset(relevantSubset(Rect(origin.x, origin.y, origin.x + image.w, origin.y + image.h),
                             dstBounds, IF clampSrcIfDisjoint THEN "clamp" ELSE "decal"))

\* FilterResult::analyzeBounds(xtraTransform, dstBounds)
analyzeBounds(f, xtraTransform, dstBounds) ==
    LET fillsLayerBounds ==
            \/ f.tileMode # "decal"
            \/ (f.colorFilter # NoFilter /\ affectsTransparentBlack(f.colorFilter))
        dims == Rect(0, 0, f.image.w, f.image.h)
        flags(requireLayerCrop, notCovered) ==
            [kRequiresLayerCrop |-> requireLayerCrop,
             kDstBoundsNotCovered |-> notCovered,
             kHasLayerFillingEffect |-> notCovered /\ fillsLayerBounds]
        covered(requireLayerCrop) ==
            flags(requireLayerCrop,
                  ~QuadContainsRect(postConcat(f.transform, xtraTransform), dims,
                                    \* pixelCenterBounds
                                    IF requireLayerCrop
                                    THEN IntersectOr(dstBounds,
                                                     MapIRect(xtraTransform, f.layerBounds))
                                    ELSE dstBounds))
    IN covered(/\ ~QuadContainsRect(xtraTransform, f.layerBounds, dstBounds)
               /\ (fillsLayerBounds \/ ~Contains(f.layerBounds, MapIRect(f.transform, dims))))

\* step 3 of analyzeBounds: the edges of safeImageBounds that hold every
\* corner of pixelCenterBounds
edgeMask(f, xtraTransform, dstBounds) ==
    LET sampleRadius == IF f.sampling.useCubic THEN 3 ELSE 1
        netTransform == postConcat(f.transform, xtraTransform)
        inset(r, d) == Rect(r.l + d, r.t + d, r.r - d, r.b - d)
        halves(r) == Rect(2 * r.l, 2 * r.t, 2 * r.r, 2 * r.b)
        pixelCenterBounds ==
            IF analyzeBounds(f, xtraTransform, dstBounds).kRequiresLayerCrop
            THEN IntersectOr(dstBounds, MapIRect(xtraTransform, f.layerBounds))
            ELSE dstBounds
    IN QuadContainsRectMask(netTransform,
                            inset(halves(Rect(0, 0, f.image.w, f.image.h)), sampleRadius),
                            IF /\ f.sampling = kDefaultSampling
                               /\ ~is_nearly_integer_translation(netTransform)
                            THEN 1 ELSE 0,
                            inset(halves(pixelCenterBounds), 1))

\* analyzeBounds, wrongly asking for the layer-space decal whether or not any
\* sample leaves the safe image bounds
analyzeTilingUnsampled(f, xtraTransform, dstBounds) ==
    [kRequiresShaderTiling |-> FALSE,
     kRequiresDecalInLayerSpace |->
         /\ f.tileMode = "decal"
         /\ f.sampling # kNearestNeighbor
         /\ ~nearUnitScales(postConcat(f.transform, xtraTransform))]

\* the flags step 3 of FilterResult::analyzeBounds sets
analyzeTiling(f, xtraTransform, dstBounds) ==
    LET hwEdge == [T |-> f.image.y = 0,
                   R |-> f.image.x + f.image.w = f.image.bw,
                   B |-> f.image.y + f.image.h = f.image.bh,
                   L |-> f.image.x = 0]
        periodic == f.tileMode \in {"repeat", "mirror"}
        hw(e, opposite) == hwEdge[e] /\ (periodic => hwEdge[opposite])
        flags(mask) ==
            LET all == mask.T /\ mask.R /\ mask.B /\ mask.L
            IN [kRequiresShaderTiling |->
                    /\ ~all
                    /\ ~ /\ (mask.T \/ hw("T", "B")) /\ (mask.R \/ hw("R", "L"))
                          /\ (mask.B \/ hw("B", "T")) /\ (mask.L \/ hw("L", "R")),
                kRequiresDecalInLayerSpace |->
                    /\ ~all
                    /\ f.tileMode = "decal"
                    /\ f.sampling # kNearestNeighbor
                    /\ ~nearUnitScales(postConcat(f.transform, xtraTransform))]
    IN flags(edgeMask(f, xtraTransform, dstBounds))

\* updateTileMode, wrongly filling one pixel beyond the desired output
updateTileModeLoose(f, desiredOutput, tileMode) ==
    IF f.image = NoImage THEN f
    ELSE [f EXCEPT !.tileMode = tileMode,
                   !.layerBounds = IF tileMode # "decal" THEN Outset(desiredOutput, 1, 1)
                                   ELSE @]

\* updateTileMode, wrongly leaving the layer bounds at the image's bounds
updateTileModeKeepingBounds(f, desiredOutput, tileMode) ==
    IF f.image = NoImage THEN f ELSE [f EXCEPT !.tileMode = tileMode]

\* FilterResult::updateTileMode
updateTileMode(f, desiredOutput, tileMode) ==
    IF f.image = NoImage THEN f
    ELSE [f EXCEPT !.tileMode = tileMode,
                   !.layerBounds = IF tileMode # "decal" THEN desiredOutput ELSE @]

\* FilterResult::resolve: [image, origin, bk].  The draw into the surface
\* (FilterResult::draw with no blender) allocates nothing.
resolve(f, dstBounds, preserveTransparency, bk, orc) ==
    LET none == [image |-> NoImage, origin |-> [x |-> 0, y |-> 0], bk |-> bk]
        subsetCompatible == /\ f.colorFilter = NoFilter
                            /\ f.tileMode = "decal"
                            /\ ~preserveTransparency
        subset(e) == [image |-> e.image, origin |-> e.origin, bk |-> bk]
        into(dst) ==
            IF subsetCompatible /\ is_nearly_integer_translation(f.transform)
            THEN subset(extract_subset(f.image, IntegerOrigin(f.transform), dst, FALSE))
            ELSE AutoSurfaceSnap(AutoSurfaceNew(bk, orc, dst), orc)
    IN IF f.image = NoImage \/ (~preserveTransparency /\ ~Intersects(dstBounds, f.layerBounds))
       THEN none
       ELSE into(IF preserveTransparency THEN dstBounds
                 ELSE RawIntersect(dstBounds, f.layerBounds))

\* SkColorFilter::filterColor: what the pending filter makes of a color
filterColor(cf, c) == IF cf = NoFilter THEN c ELSE cf[c]

\* FilterResult::draw, wrongly tiling a decal image as if it were clamped
drawnClampingDecal(f, dstBounds, texel) ==
    IF analyzeBounds(f, Identity, dstBounds).kDstBoundsNotCovered
    THEN filterColor(f.colorFilter, texel)
    ELSE Transparent

\* FilterResult::draw into a cleared surface over dstBounds: the color of the
\* pixels it leaves outside the image (as mapped by the transform) and inside
\* the layer bounds; texel is the color a non-decal tiling finds there.
drawnOutsideImage(f, dstBounds, texel) ==
    IF analyzeBounds(f, Identity, dstBounds).kHasLayerFillingEffect
    THEN \* drawPaint with the shader of the image, its tiling and its filter
         filterColor(f.colorFilter, IF f.tileMode = "decal" THEN Transparent ELSE texel)
    ELSE \* drawSpecial covers the image only
         Transparent

\* compatible_sampling, wrongly never merging
neverCompatible(cur, currentXformWontAffectNearest, next, nextXformWontAffectNearest) ==
    [ok |-> FALSE, sampling |-> next]

\* compatible_sampling, wrongly leaving *nextSampling alone when it merges
compatibleKeepingNext(cur, currentXformWontAffectNearest, next, nextXformWontAffectNearest) ==
    [ok |-> TRUE, sampling |-> next]

\* compatible_sampling: [ok, sampling], sampling being *nextSampling on return
compatible_sampling(cur, currentXformWontAffectNearest, next, nextXformWontAffectNearest) ==
    IF isAniso(cur) /\ isAniso(next)
    THEN [ok |-> TRUE, sampling |-> AnisoSampling(Max(cur.maxAniso, next.maxAniso))]
    ELSE IF isAniso(cur) /\ next.filter = "linear"
    THEN [ok |-> TRUE, sampling |-> cur]
    ELSE IF isAniso(next) /\ cur.filter = "linear"
    THEN [ok |-> TRUE, sampling |-> next]
    ELSE IF cur.useCubic /\ (next.filter = "linear"
                             \/ (next.useCubic /\ cur.cubic = next.cubic))
    THEN [ok |-> TRUE, sampling |-> cur]
    ELSE IF next.useCubic /\ cur.filter = "linear"
    THEN [ok |-> TRUE, sampling |-> next]
    ELSE IF cur.filter = "linear" /\ next.filter = "linear"
    THEN [ok |-> TRUE, sampling |-> next]
    ELSE IF next.filter = "nearest" /\ currentXformWontAffectNearest
    THEN [ok |-> TRUE, sampling |-> next]
    ELSE IF cur.filter = "nearest" /\ nextXformWontAffectNearest
    THEN [ok |-> TRUE, sampling |-> cur]
    ELSE [ok |-> FALSE, sampling |-> next]

\* applyTransform, wrongly resolving the receiver before every transform
applyTransformResolving(f, desiredOutput, transform, sampling, bk, orc) ==
    LET placed(g, layerBounds, bk1) ==
            IF ~Intersects(layerBounds, desiredOutput) THEN [fr |-> EmptyResult, bk |-> bk1]
            ELSE [fr |-> [g EXCEPT !.sampling = sampling,
                                   !.transform = postConcat(@, transform),
                                   !.layerBounds = RawIntersect(layerBounds, desiredOutput)],
                  bk |-> bk1]
        resolved(res) ==
            IF res.image = NoImage THEN [fr |-> EmptyResult, bk |-> res.bk]
            ELSE placed(MakeFilterResult(res.image, res.origin),
                        MapIRect(transform, MakeFilterResult(res.image, res.origin).layerBounds),
                        res.bk)
    IN IF f.image = NoImage \/ IsEmpty(desiredOutput) THEN [fr |-> EmptyResult, bk |-> bk]
       ELSE resolved(resolve(f, inverseMapRect(transform, desiredOutput).rect, FALSE, bk, orc))

\* FilterResult::applyTransform: [fr, bk]
applyTransform(f, desiredOutput, transform, sampling, bk, orc) ==
    LET currentXformIsInteger == is_nearly_integer_translation(f.transform)
        nextXformIsInteger == is_nearly_integer_translation(transform)
        wanted == IF nextXformIsInteger THEN kDefaultSampling ELSE sampling
        \* the new sampling, transform and layer bounds of 'transformed'
        bounded(base, nextSampling, layerBounds, bk1) ==
            IF ~Intersects(layerBounds, desiredOutput)
            THEN [fr |-> EmptyResult, bk |-> bk1]
            ELSE [fr |-> [base EXCEPT !.sampling = nextSampling,
                                      !.transform = postConcat(@, transform),
                                      !.layerBounds = RawIntersect(layerBounds,
                                                                   desiredOutput)],
                  bk |-> bk1]
        finish(base, nextSampling, bk1) ==
            bounded(base, nextSampling, MapIRect(transform, base.layerBounds), bk1)
        \* the receiver resolved into res
        resolved(res) ==
            IF res.image = NoImage
            THEN [fr |-> EmptyResult, bk |-> res.bk]
            ELSE finish(MakeFilterResult(res.image, res.origin), wanted, res.bk)
        within(tight) ==
            resolved(IF tight.ok THEN resolve(f, tight.rect, FALSE, bk, orc)
                     ELSE [image |-> NoImage, origin |-> [x |-> 0, y |-> 0], bk |-> bk])
        merge(isCropped, compat) ==
            IF ~isCropped /\ compat.ok
            THEN finish(f, compat.sampling, bk)
            ELSE within(inverseMapRect(transform, desiredOutput))
        cropped(isCropped) ==
            merge(isCropped,
                  IF isCropped THEN [ok |-> FALSE, sampling |-> wanted]
                  ELSE compatible_sampling(f.sampling, currentXformIsInteger,
                                           wanted, nextXformIsInteger))
    IN IF f.image = NoImage \/ IsEmpty(desiredOutput)
       THEN [fr |-> EmptyResult, bk |-> bk]
       ELSE cropped(/\ ~nextXformIsInteger
                    /\ analyzeBounds(f, transform, desiredOutput).kRequiresLayerCrop)

\* periodic_axis_transform, wrongly leaving out the translation by periods
periodicTransformInPlace(tileMode, crop, output) ==
    LET cropWidth == crop.r - crop.l
        cropHeight == crop.b - crop.t
        flipped(flipX, flipY) ==
            Matrix(IF flipX THEN -1 ELSE 1, IF flipY THEN -1 ELSE 1,
                   2 * (IF flipX THEN cropWidth + crop.l ELSE -crop.l),
                   2 * (IF flipY THEN cropHeight + crop.t ELSE -crop.t))
        periods(periodL, periodT, periodR, periodB) ==
            IF periodR - periodL <= 1 /\ periodB - periodT <= 1
            THEN [some |-> TRUE,
                  m |-> flipped(tileMode = "mirror" /\ periodL % 2 # 0,
                                tileMode = "mirror" /\ periodT % 2 # 0)]
            ELSE [some |-> FALSE, m |-> Identity]
    IN IF tileMode \in {"clamp", "decal"} THEN [some |-> FALSE, m |-> Identity]
       ELSE periods(FloorDiv(output.l - crop.l, cropWidth),
                    FloorDiv(output.t - crop.t, cropHeight),
                    CeilDiv(output.r - crop.l, cropWidth),
                    CeilDiv(output.b - crop.t, cropHeight))

\* periodic_axis_transform, wrongly flipping only in odd periods above zero
periodicTransformPositiveFlip(tileMode, crop, output) ==
    LET cropWidth == crop.r - crop.l
        cropHeight == crop.b - crop.t
        shifted(flipX, flipY, periodL, periodT) ==
            Matrix(IF flipX THEN -1 ELSE 1, IF flipY THEN -1 ELSE 1,
                   2 * ((IF flipX THEN cropWidth + crop.l ELSE -crop.l)
                        + periodL * cropWidth + crop.l),
                   2 * ((IF flipY THEN cropHeight + crop.t ELSE -crop.t)
                        + periodT * cropHeight + crop.t))
        periods(periodL, periodT, periodR, periodB) ==
            IF periodR - periodL <= 1 /\ periodB - periodT <= 1
            THEN [some |-> TRUE,
                  m |-> shifted(tileMode = "mirror" /\ periodL > 0 /\ periodL % 2 = 1,
                                tileMode = "mirror" /\ periodT > 0 /\ periodT % 2 = 1,
                                periodL, periodT)]
            ELSE [some |-> FALSE, m |-> Identity]
    IN IF tileMode \in {"clamp", "decal"} THEN [some |-> FALSE, m |-> Identity]
       ELSE periods(FloorDiv(output.l - crop.l, cropWidth),
                    FloorDiv(output.t - crop.t, cropHeight),
                    CeilDiv(output.r - crop.l, cropWidth),
                    CeilDiv(output.b - crop.t, cropHeight))

\* periodic_axis_transform: [some, m].  The translation is an integer far
\* below 2^24, so it always round-trips as a float.
periodic_axis_transform(tileMode, crop, output) ==
    LET cropL == crop.l
        cropT == crop.t
        cropWidth == crop.r - cropL
        cropHeight == crop.b - cropT
        shifted(flipX, flipY, periodL, periodT) ==
            Matrix(IF flipX THEN -1 ELSE 1, IF flipY THEN -1 ELSE 1,
                   2 * ((IF flipX THEN cropWidth - (-cropL) ELSE -cropL)
                        + periodL * cropWidth + cropL),
                   2 * ((IF flipY THEN cropHeight - (-cropT) ELSE -cropT)
                        + periodT * cropHeight + cropT))
        periods(periodL, periodT, periodR, periodB) ==
            IF periodR - periodL <= 1 /\ periodB - periodT <= 1
            THEN [some |-> TRUE,
                  m |-> shifted(tileMode = "mirror" /\ periodL % 2 # 0,
                                tileMode = "mirror" /\ periodT % 2 # 0,
                                periodL, periodT)]
            ELSE [some |-> FALSE, m |-> Identity]
    IN IF tileMode \in {"clamp", "decal"} THEN [some |-> FALSE, m |-> Identity]
       ELSE periods(FloorDiv(output.l - cropL, cropWidth),
                    FloorDiv(output.t - cropT, cropHeight),
                    CeilDiv(output.r - cropL, cropWidth),
                    CeilDiv(output.b - cropT, cropHeight))

\* the first step of applyCrop, wrongly ignoring that the intersection failed
intersectLayerBoundsUnchecked(f, crop) ==
    [ok |-> TRUE, rect |-> IntersectOr(crop, f.layerBounds)]

\* The first step of applyCrop: cropContent.intersect(fLayerBounds), the part
\* of crop that can hold content: [ok, rect]
intersectLayerBounds(f, crop) ==
    [ok |-> Intersects(crop, f.layerBounds), rect |-> IntersectOr(crop, f.layerBounds)]

\* the test of applyCrop's fifth step, wrongly met by two clamps only
analyticCropOnlyDoubleClamp(f, fittedCrop, preserveTransparencyInCrop, doubleClamp) ==
    /\ ~preserveTransparencyInCrop
    /\ is_nearly_integer_translation(f.transform)
    /\ doubleClamp

\* The test of applyCrop's fifth step: the crop can be applied to the image
\* itself, without a new image
analyticCrop(f, fittedCrop, preserveTransparencyInCrop, doubleClamp) ==
    /\ ~preserveTransparencyInCrop
    /\ is_nearly_integer_translation(f.transform)
    /\ (doubleClamp \/ ~analyzeBounds(f, Identity, fittedCrop).kHasLayerFillingEffect)

\* The crop and tile mode applyCrop applies, after its fourth step:
\* [fittedCrop, tileMode, preserve], preserve being preserveTransparencyInCrop
fitCrop(f, desiredOutput, newTileMode, cropContent, fittedCrop) ==
    IF newTileMode = "decal"
    THEN [fittedCrop |-> cropContent, tileMode |-> "decal", preserve |-> FALSE]
    ELSE IF Contains(fittedCrop, desiredOutput)
    THEN [fittedCrop |-> desiredOutput, tileMode |-> "decal", preserve |-> FALSE]
    ELSE IF ~Contains(cropContent, fittedCrop)
    THEN [fittedCrop |-> IF f.tileMode = "decal" /\ newTileMode = "clamp"
                         THEN IntersectOr(fittedCrop, Outset(cropContent, 1, 1))
                         ELSE fittedCrop,
          tileMode |-> newTileMode, preserve |-> TRUE]
    ELSE [fittedCrop |-> fittedCrop, tileMode |-> newTileMode, preserve |-> FALSE]

\* FilterResult::applyCrop: [fr, bk]
applyCrop(f, desiredOutput, crop, newTileMode, bk, orc) ==
    LET empty == [fr |-> EmptyResult, bk |-> bk]
        \* Fifth: extract a sub-image, or adjust the layer bounds, or resolve.
        restrictedOutput(e, tileMode) ==
            [fr |-> updateTileMode([MakeFilterResult(e.image, e.origin)
                                       EXCEPT !.colorFilter = f.colorFilter],
                                   desiredOutput, tileMode),
             bk |-> bk]
        tiled(r, tileMode) ==
            [fr |-> updateTileMode(MakeFilterResult(r.image, r.origin),
                                   desiredOutput, tileMode),
             bk |-> r.bk]
        fifth(fittedCrop, tileMode, preserveTransparencyInCrop, doubleClamp) ==
            IF analyticCrop(f, fittedCrop, preserveTransparencyInCrop, doubleClamp)
            THEN restrictedOutput(extract_subset(f.image, IntegerOrigin(f.transform),
                                                 fittedCrop, doubleClamp),
                                  tileMode)
            ELSE IF tileMode = "decal"
            THEN [fr |-> [f EXCEPT !.layerBounds = fittedCrop], bk |-> bk]
            ELSE tiled(resolve(f, fittedCrop, TRUE, bk, orc), tileMode)
        chosen(c) ==
            fifth(c.fittedCrop, c.tileMode, c.preserve,
                  f.tileMode = "clamp" /\ c.tileMode = "clamp")
        \* Fourth: a single period of a periodic tiling is a transform.
        fourth(cropContent, fittedCrop, periodicTransform) ==
            IF periodicTransform.some
            THEN applyTransform(f, desiredOutput, periodicTransform.m, kDefaultSampling,
                                bk, orc)
            ELSE chosen(fitCrop(f, desiredOutput, newTileMode, cropContent, fittedCrop))
        \* Third: the cropped content must overlap what tiles the output.
        third(cropContent, fittedCrop) ==
            IF ~Intersects(cropContent, fittedCrop) THEN empty
            ELSE fourth(RawIntersect(cropContent, fittedCrop), fittedCrop,
                        periodic_axis_transform(newTileMode, fittedCrop, desiredOutput))
    IN IF IsEmpty(crop) \/ IsEmpty(desiredOutput) THEN empty
       ELSE IF f.image = NoImage \/ ~intersectLayerBounds(f, crop).ok THEN empty
       ELSE third(intersectLayerBounds(f, crop).rect,
                  relevantSubset(crop, desiredOutput, newTileMode))

\* The end of applyColorFilter, wrongly composing the new filter before the
\* receiver's own
filteredBefore(f, newLayerBounds, colorFilter) ==
    [f EXCEPT !.layerBounds = newLayerBounds,
              !.colorFilter = ComposeCF(f.colorFilter, colorFilter)]

\* The end of applyColorFilter, wrongly switching the result to clamp tiling
filteredClamped(f, newLayerBounds, colorFilter) ==
    [f EXCEPT !.layerBounds = newLayerBounds,
              !.colorFilter = ComposeCF(colorFilter, f.colorFilter),
              !.tileMode = "clamp"]

\* The end of FilterResult::applyColorFilter: the receiver with the new layer
\* bounds and the new filter composed after its own
filtered(f, newLayerBounds, colorFilter) ==
    [f EXCEPT !.layerBounds = newLayerBounds,
              !.colorFilter = ComposeCF(colorFilter, f.colorFilter)]

\* FilterResult::applyColorFilter: [fr, bk]
applyColorFilter(f, desiredOutput, colorFilter, bk, orc) ==
    LET visible == f.image # NoImage /\ Intersects(f.layerBounds, desiredOutput)
        \* what a surface or a resolve gave, with the filter pending, clamp-tiled
        clamped(r, cf) ==
            [fr |-> updateTileMode([MakeFilterResult(r.image, r.origin)
                                       EXCEPT !.colorFilter = cf],
                                   desiredOutput, "clamp"),
             bk |-> r.bk]
    IN
    IF IsEmpty(desiredOutput) THEN [fr |-> EmptyResult, bk |-> bk]
    ELSE IF affectsTransparentBlack(colorFilter)
    THEN IF ~visible
         THEN \* a 1x1 surface of filtered transparent black, clamp-tiled
              clamped(AutoSurfaceSnap(
                          AutoSurfaceNew(bk, orc, Rect(desiredOutput.l, desiredOutput.t,
                                                       desiredOutput.l + 1,
                                                       desiredOutput.t + 1)),
                          orc),
                      NoFilter)
         ELSE IF analyzeBounds(f, Identity, desiredOutput).kRequiresLayerCrop
         THEN clamped(resolve(f,
                              \* newLayerBounds
                              IntersectOr(Outset(RawIntersect(f.layerBounds, desiredOutput),
                                                 1, 1),
                                          desiredOutput),
                              TRUE, bk, orc),
                      colorFilter)
         ELSE [fr |-> filtered(f, desiredOutput, colorFilter), bk |-> bk]
    ELSE IF ~visible
         THEN [fr |-> EmptyResult, bk |-> bk]
         ELSE [fr |-> filtered(f, RawIntersect(f.layerBounds, desiredOutput), colorFilter),
               bk |-> bk]

---------------------------------------------------------------------------
(* rescale.  Scale factors and the logical (float) sizes of the steps are     *)
(* exact fractions [n, d], d > 0.                                             *)

Q(n, d) == [n |-> n, d |-> d]
QMul(a, b) == Q(a.n * b.n, a.d * b.d)
QDiv(a, b) == Q(a.n * b.d, a.d * b.n)
QSub(a, b) == Q(a.n * b.d - b.n * a.d, a.d * b.d)
QInt(i) == Q(i, 1)
QHalf == Q(1, 2)
QCeil(a) == CeilDiv(a.n, a.d)
QGeq(a, b) == a.n * b.d >= b.n * a.d

\* SkNextLog2: the least k with 2^k >= n
RECURSIVE SkNextLog2(_)
SkNextLog2(n) == IF n <= 1 THEN 0 ELSE 1 + SkNextLog2((n + 1) \div 2)

\* downscale_step_count, wrongly using the multi-pass limit for a single pass
stepCountOneLimit(netScaleFactor) ==
    LET kMultiPassLimit == Q(4, 5)
        dropLast(steps) ==
            IF /\ steps > 0
               /\ QGeq(QMul(netScaleFactor, QInt(Pow2(steps - 1))), kMultiPassLimit)
            THEN steps - 1 ELSE steps
    IN dropLast(SkNextLog2(QCeil(QDiv(QInt(1), netScaleFactor))))

\* downscale_step_count
downscale_step_count(netScaleFactor) ==
    LET kMultiPassLimit == Q(4, 5)
        kNearIdentityLimit == Q(999, 1000)
        \* the last step is skipped when its own scale is this close to 1
        dropLast(steps) ==
            IF /\ steps > 0
               /\ QGeq(QMul(netScaleFactor, QInt(Pow2(steps - 1))),
                       IF steps = 1 THEN kNearIdentityLimit ELSE kMultiPassLimit)
            THEN steps - 1 ELSE steps
    IN dropLast(SkNextLog2(QCeil(QDiv(QInt(1), netScaleFactor))))

\* sx or sy of one iteration of the loop of rescale
stepScale(steps, srcSize, factor, stepSize) ==
    IF steps > 1 THEN QHalf
    ELSE IF steps = 1 THEN QDiv(QMul(QInt(srcSize), factor), stepSize)
    ELSE QInt(1)

\* px or py of one iteration: srcFrac is stepPixelBounds' far edge less
\* stepBoundsF's less 0.5, dstSize the far edge of dstBoundsF
stepPadding(s, srcFrac, dstSize) ==
    Max(1, QCeil(QSub(QMul(s, srcFrac),
                      QSub(QSub(QInt(QCeil(dstSize)), dstSize), QHalf))))

\* The loop of rescale, from the state st at the top of an iteration, to the
\* state at its exit; failed is set when a surface could not be made.
RECURSIVE rescaleLoop(_, _, _, _)
rescaleLoop(st, srcRect, scale, orc) ==
    LET stepped(dstW, dstH, dstPixelBounds, snapped) ==
            [xSteps |-> Max(0, st.xSteps - 1),
             ySteps |-> Max(0, st.ySteps - 1),
             stepL |-> 0, stepT |-> 0, stepW |-> dstW, stepH |-> dstH,
             stepPixelBounds |-> dstPixelBounds,
             tileMode |-> IF st.tileMode = "decal" THEN "clamp" ELSE st.tileMode,
             image |-> snapped.image,
             origin |-> snapped.origin,
             failed |-> FALSE,
             bk |-> [snapped.bk EXCEPT !.iters = @ + 1]]
        drawn(dstW, dstH, dstPixelBounds, surface) ==
            IF ~surface.surface.fCanvas
            THEN [st EXCEPT !.failed = TRUE,
                            !.bk = [surface EXCEPT !.iters = @ + 1]]
            ELSE rescaleLoop(stepped(dstW, dstH, dstPixelBounds,
                                     AutoSurfaceSnap(surface, orc)),
                             srcRect, scale, orc)
        sized(dstW, dstH, dstPixelBounds) ==
            drawn(dstW, dstH, dstPixelBounds,
                  AutoSurfaceNew(st.bk, orc, dstPixelBounds))
        padded(sx, sy, dstW, dstH) ==
            sized(dstW, dstH,
                  IF st.tileMode \in {"clamp", "decal"}
                  THEN Outset(Rect(0, 0, QCeil(dstW), QCeil(dstH)),
                              stepPadding(sx,
                                          QSub(QSub(QInt(st.stepPixelBounds.r - st.stepL),
                                                    st.stepW), QHalf),
                                          dstW),
                              stepPadding(sy,
                                          QSub(QSub(QInt(st.stepPixelBounds.b - st.stepT),
                                                    st.stepH), QHalf),
                                          dstH))
                  ELSE Rect(0, 0, QCeil(dstW), QCeil(dstH)))
        scaled(sx, sy) == padded(sx, sy, QMul(st.stepW, sx), QMul(st.stepH, sy))
    IN IF ~(st.image = NoImage \/ st.xSteps > 0 \/ st.ySteps > 0) THEN st
       ELSE scaled(stepScale(st.xSteps, Width(srcRect), scale.w, st.stepW),
                   stepScale(st.ySteps, Height(srcRect), scale.h, st.stepH))

\* const bool canDeferTiling of rescale
canDeferTiling(f, desiredOutput, enforceDecal) ==
    /\ is_nearly_integer_translation(f.transform)
    /\ ~analyzeBounds(f, Identity, desiredOutput).kRequiresLayerCrop
    /\ ~(enforceDecal /\ analyzeBounds(f, Identity, desiredOutput).kHasLayerFillingEffect)

\* FilterResult::rescale: [fr, bk].  sameFormat: the image has the backend's
\* color type and the context's color space.
rescale(f, desiredOutput, scale, enforceDecal, sameFormat, bk, orc) ==
    LET visibleLayerBounds == RawIntersect(f.layerBounds, desiredOutput)
        origin == IntegerOrigin(f.transform)
        \* RectToRect(stepBoundsF, srcRect), after the translation by origin
        rebuilt(end, srcRect, mx, my) ==
            IF end.failed THEN [fr |-> EmptyResult, bk |-> end.bk]
            ELSE [fr |-> [MakeFilterResult(end.image, end.origin)
                             EXCEPT !.transform = Matrix(mx, my,
                                                         2 * (srcRect.l + end.origin.x * mx),
                                                         2 * (srcRect.t + end.origin.y * my)),
                                    !.layerBounds = visibleLayerBounds,
                                    !.tileMode = IF enforceDecal THEN "decal"
                                                 ELSE end.tileMode],
                  bk |-> end.bk]
        finished(end, srcRect) ==
            rebuilt(end, srcRect,
                    (Width(srcRect) * end.stepW.d) \div end.stepW.n,
                    (Height(srcRect) * end.stepH.d) \div end.stepH.n)
        downscaled(srcRect, tileMode, xSteps, ySteps) ==
            IF IsEmpty(srcRect) THEN [fr |-> EmptyResult, bk |-> bk]
            ELSE finished(rescaleLoop([xSteps |-> xSteps, ySteps |-> ySteps,
                                       stepL |-> srcRect.l, stepT |-> srcRect.t,
                                       stepW |-> QInt(Width(srcRect)),
                                       stepH |-> QInt(Height(srcRect)),
                                       stepPixelBounds |-> Outset(srcRect, 1, 1),
                                       tileMode |-> tileMode,
                                       image |-> NoImage,
                                       origin |-> [x |-> 0, y |-> 0],
                                       failed |-> FALSE,
                                       bk |-> bk],
                                      srcRect, scale, orc),
                          srcRect)
        source(deferred, xSteps, ySteps) ==
            downscaled(relevantSubset(IF deferred
                                      THEN Rect(origin.x, origin.y,
                                                origin.x + f.image.w, origin.y + f.image.h)
                                      ELSE visibleLayerBounds,
                                      desiredOutput,
                                      IF deferred THEN f.tileMode ELSE "decal"),
                       IF deferred THEN f.tileMode ELSE "decal",
                       xSteps, ySteps)
        extracted(e) == [fr |-> MakeFilterResult(e.image, e.origin), bk |-> bk]
        stepsOf(xSteps, ySteps, deferrable, fills) ==
            IF /\ xSteps = 0 /\ ySteps = 0
               \* ~hasEffectsToApply
               /\ deferrable /\ f.colorFilter = NoFilter /\ sameFormat
            THEN IF fills
                 THEN [fr |-> [f EXCEPT !.layerBounds = visibleLayerBounds], bk |-> bk]
                 ELSE extracted(extract_subset(f.image, origin, visibleLayerBounds, FALSE))
            ELSE source(deferrable /\ fills, xSteps, ySteps)
        analysed(analysis) ==
            stepsOf(downscale_step_count(scale.w), downscale_step_count(scale.h),
                    canDeferTiling(f, desiredOutput, enforceDecal),
                    analysis.kHasLayerFillingEffect)
    IN IF \/ f.image = NoImage
          \/ ~Intersects(f.layerBounds, desiredOutput)
          \/ scale.w.n <= 0 \/ scale.h.n <= 0
       THEN [fr |-> EmptyResult, bk |-> bk]
       ELSE analysed(analyzeBounds(f, Identity, desiredOutput))

\* FilterResult::MakeFromShader: [fr, bk]
MakeFromShader(desiredOutput, bk, orc) ==
    LET s == AutoSurfaceSnap(AutoSurfaceNew(bk, orc, desiredOutput), orc)
    IN [fr |-> MakeFilterResult(s.image, s.origin), bk |-> s.bk]

---------------------------------------------------------------------------
(* The inputs the operations are tried on *)

TileModes == {"clamp", "repeat", "mirror", "decal"}
\* desired outputs: the source image's bounds, a larger one, a shifted one
Outputs == {Rect(0, 0, 4, 4), Rect(-2, -2, 6, 6), Rect(4, 0, 8, 4)}
Crops == {Rect(0, 0, 4, 4), Rect(1, 0, 3, 4), Rect(3, 0, 5, 4)}
\* integer translations, a half-pixel translation, a mirror and a 2x scale
Xforms == {Translate(1, 0), Translate(-1, 0), Identity,
           Matrix(1, 1, 1, 0), Matrix(-1, 1, 8, 0), Matrix(2, 2, 0, 0)}
Samplings == {kDefaultSampling, kNearestNeighbor, CubicSampling(1), AnisoSampling(2)}
\* two filters that keep transparent black (and do not commute), one that does not
CF_F == <<1, 3, 3>>
CF_G == <<1, 2, 2>>
CF_Invert == <<2, 1, 3>>
ColorFilters == {CF_F, CF_G, CF_Invert}
Oracles == {o \in [dev : SUBSET (1..MaxDevCalls), snap : SUBSET (1..MaxDevCalls)] :
                o.dev = {} \/ o.snap = {}}

\* rescale factors 1/2^i by 1/2^j
Scales == {[w |-> Q(1, Pow2(i)), h |-> Q(1, Pow2(j))] :
               i \in 0..MaxShift, j \in {0, MaxShift}}

OpRecord(name, crop, tileMode, cf, xform, sampling, scale, enforceDecal) ==
    [name |-> name, crop |-> crop, tileMode |-> tileMode, cf |-> cf,
     xform |-> xform, sampling |-> sampling, scale |-> scale,
     enforceDecal |-> enforceDecal]
NoOp == OpRecord("none", EmptyRect, "decal", NoFilter, Identity, kDefaultSampling,
                 [w |-> Q(1, 1), h |-> Q(1, 1)], FALSE)

---------------------------------------------------------------------------
(* The state machine: a FilterResult made from a source image or a shader,    *)
(* then any sequence of operations, each under a context of its own.          *)

---------------------------------------------------------------------------
(* Mapping.  An SkMatrix without perspective, with exact entries: the point   *)
(* (x, y) goes to ((a x + b y + e) / n, (c x + d y + f) / n), n > 0, the      *)
(* seven numbers without a common factor.                                     *)

RECURSIVE GCD(_, _)
GCD(x, y) == IF y = 0 THEN Abs(x) ELSE GCD(y, x % Abs(y))
ISqrt(x) == CHOOSE r \in 0..x : r * r <= x /\ x < (r + 1) * (r + 1)

AffNorm(m) ==
    LET divided(g) ==
            [a |-> m.a \div g, b |-> m.b \div g, c |-> m.c \div g, d |-> m.d \div g,
             e |-> m.e \div g, f |-> m.f \div g, n |-> m.n \div g]
    IN divided((IF m.n < 0 THEN -1 ELSE 1)
               * GCD(m.n, GCD(m.a, GCD(m.b, GCD(m.c, GCD(m.d, GCD(m.e, m.f)))))))
Aff(a, b, c, d, e, f) == [a |-> a, b |-> b, c |-> c, d |-> d, e |-> e, f |-> f, n |-> 1]
\* SkMatrix::I()
AffI == Aff(1, 0, 0, 1, 0, 0)
\* SkMatrix::Scale(1 / sx, 1 / sy)
AffInvScale(sx, sy) == AffNorm([Aff(sy, 0, 0, sx, 0, 0) EXCEPT !.n = sx * sy])
\* SkMatrix::Concat(m, t): first t, then m
AffConcat(m, t) ==
    AffNorm([a |-> m.a * t.a + m.b * t.c,
             b |-> m.a * t.b + m.b * t.d,
             c |-> m.c * t.a + m.d * t.c,
             d |-> m.c * t.b + m.d * t.d,
             e |-> m.a * t.e + m.b * t.f + m.e * t.n,
             f |-> m.c * t.e + m.d * t.f + m.f * t.n,
             n |-> m.n * t.n])
\* the determinant of m, times n * n
AffDet(m) == m.a * m.d - m.b * m.c
\* SkMatrix::invert: [ok, inv]
AffInvert(m) ==
    IF AffDet(m) = 0 THEN [ok |-> FALSE, inv |-> AffI]
    ELSE [ok |-> TRUE,
          inv |-> AffNorm([a |-> m.n * m.d, b |-> -(m.n * m.b),
                           c |-> -(m.n * m.c), d |-> m.n * m.a,
                           e |-> m.b * m.f - m.d * m.e,
                           f |-> m.c * m.e - m.a * m.f,
                           n |-> AffDet(m)])]
\* SkMatrix::isScaleTranslate
isScaleTranslate(m) == m.b = 0 /\ m.c = 0
\* SkMatrix::decomposeScale of a matrix of whole numbers whose columns have
\* whole lengths: [ok, sx, sy, remaining]
decomposeScale(m) ==
    LET lengths(sx, sy) ==
            IF sx = 0 \/ sy = 0
            THEN [ok |-> FALSE, sx |-> sx, sy |-> sy, remaining |-> m]
            ELSE [ok |-> TRUE, sx |-> sx, sy |-> sy,
                  remaining |-> AffConcat(m, AffInvScale(sx, sy))]
    IN lengths(ISqrt(m.a * m.a + m.c * m.c), ISqrt(m.b * m.b + m.d * m.d))
\* decompose_transform: [postScaling, scaling]
decompose_transform(transform) ==
    LET decomposed(ds) ==
            IF ds.ok
            THEN [postScaling |-> ds.remaining, scaling |-> Aff(ds.sx, 0, 0, ds.sy, 0, 0)]
            ELSE LET \* SkMatrixPriv::DifferentialAreaScale, then its square root
                     approxScale == IF AffDet(transform) = 0 THEN 1
                                    ELSE ISqrt(Abs(AffDet(transform)))
                 IN [postScaling |-> AffConcat(transform,
                                               AffInvScale(approxScale, approxScale)),
                     scaling |-> Aff(approxScale, 0, 0, approxScale, 0, 0)]
    IN decomposed(decomposeScale(transform))

\* Mapping(): three identity matrices
NewMapping == [paramToLayer |-> AffI, layerToDev |-> AffI, devToLayer |-> AffI]

\* the layer and the remainder decomposeCTM splits ctm into
splitCTM(ctm, capability) ==
    IF capability = "Translate" THEN [remainder |-> ctm, layer |-> AffI]
    ELSE IF isScaleTranslate(ctm) \/ capability = "Complex"
    THEN [remainder |-> AffI, layer |-> ctm]
    ELSE LET dt == decompose_transform(ctm)
         IN [remainder |-> dt.postScaling, layer |-> dt.scaling]

\* Mapping::decomposeCTM, wrongly storing the matrices before the remainder
\* is known to invert
decomposeCTMStoring(m, ctm, capability) ==
    LET split == splitCTM(ctm, capability)
        inverted == AffInvert(split.remainder)
    IN [ok |-> inverted.ok, remainder |-> split.remainder, layer |-> split.layer,
        mapping |-> [paramToLayer |-> split.layer, layerToDev |-> split.remainder,
                     devToLayer |-> IF inverted.ok THEN inverted.inv ELSE m.devToLayer]]

\* Mapping::decomposeCTM on the Mapping m: [ok, remainder, layer, mapping]
decomposeCTM(m, ctm, capability) ==
    LET split == splitCTM(ctm, capability)
        inverted == AffInvert(split.remainder)
    IN [ok |-> inverted.ok, remainder |-> split.remainder, layer |-> split.layer,
        mapping |-> IF ~inverted.ok THEN m
                    ELSE [paramToLayer |-> split.layer,
                          layerToDev |-> split.remainder,
                          devToLayer |-> inverted.inv]]

\* adjustLayerSpace, wrongly concatenating the inverse after layerToDev
adjustLayerSpacePostConcat(m, layer) ==
    LET inverted == AffInvert(layer)
    IN [ok |-> inverted.ok,
        mapping |-> IF ~inverted.ok THEN m
                    ELSE [paramToLayer |-> AffConcat(layer, m.paramToLayer),
                          layerToDev |-> AffConcat(inverted.inv, m.layerToDev),
                          devToLayer |-> AffConcat(layer, m.devToLayer)]]

\* Mapping::adjustLayerSpace on the Mapping m: [ok, mapping]
adjustLayerSpace(m, layer) ==
    LET inverted == AffInvert(layer)
    IN [ok |-> inverted.ok,
        mapping |-> IF ~inverted.ok THEN m
                    ELSE [paramToLayer |-> AffConcat(layer, m.paramToLayer),
                          layerToDev |-> AffConcat(m.layerToDev, inverted.inv),
                          devToLayer |-> AffConcat(layer, m.devToLayer)]]

\* ctm: the matrix of the last decomposeCTM that returned true
MappingCall(name, arg, capability, ok, remainder, before, n, ctm) ==
    [name |-> name, arg |-> arg, capability |-> capability, ok |-> ok,
     remainder |-> remainder, before |-> before, n |-> n, ctm |-> ctm]
NoMappingCall == MappingCall("none", AffI, "Complex", TRUE, AffI, NewMapping, 0, AffI)

---------------------------------------------------------------------------
(* GlobalCache.  A pipeline cache is the sequence of its entries [key,        *)
(* pipeline], the one used last first; a pipeline is the number of the        *)
(* Recorder that created it, 0 stands for no pipeline.                        *)

PipelineKinds == {"graphics", "compute"}
Recorders == 1..MaxRecorders
UniqueKeys == 1..MaxKeys

\* the place of key among the entries, 0 when it has none
EntryOf(entries, key) ==
    IF \E i \in 1..Len(entries) : entries[i].key = key
    THEN CHOOSE i \in 1..Len(entries) : entries[i].key = key
    ELSE 0
\* the entries without the i-th
WithoutEntry(entries, i) ==
    SubSeq(entries, 1, i - 1) \o SubSeq(entries, i + 1, Len(entries))
\* SkLRUCache::find: [pipeline, entries]; an entry found becomes the latest
lruFind(entries, key) ==
    LET found(i) ==
            IF i = 0 THEN [pipeline |-> 0, entries |-> entries]
            ELSE [pipeline |-> entries[i].pipeline,
                  entries |-> <<entries[i]>> \o WithoutEntry(entries, i)]
    IN found(EntryOf(entries, key))
\* SkLRUCache::insert: the entries with the new one first, without the one
\* used longest ago when there are too many
lruInsert(entries, key, pipeline) ==
    LET inserted(all) ==
            IF Len(all) > MaxPipelines THEN SubSeq(all, 1, MaxPipelines) ELSE all
    IN inserted(<<[key |-> key, pipeline |-> pipeline]>> \o entries)

\* GlobalCache::findGraphicsPipeline, findComputePipeline, under fSpinLock:
\* [pipeline, entries]
findPipeline(entries, key) == lruFind(entries, key)

\* addGraphicsPipeline, wrongly storing the passed-in pipeline over the one
\* the key already has
addPipelineOverwriting(entries, key, pipeline) ==
    LET i == EntryOf(entries, key)
    IN [pipeline |-> pipeline,
        entries |-> lruInsert(IF i = 0 THEN entries ELSE WithoutEntry(entries, i),
                              key, pipeline)]

\* GlobalCache::addGraphicsPipeline, addComputePipeline, under fSpinLock:
\* [pipeline, entries], the pipeline the one the key has from now on
addPipeline(entries, key, pipeline) ==
    LET had == lruFind(entries, key)
    IN IF had.pipeline # 0 THEN had
       ELSE [pipeline |-> pipeline, entries |-> lruInsert(entries, key, pipeline)]

\* A Recorder: pc is "idle", "create" (its query found nothing), "add" (it
\* created a pipeline of its own) or "done"; mine the pipeline it created,
\* got the one the cache gave it
Recorder(pc, kind, key, mine, got) ==
    [pc |-> pc, kind |-> kind, key |-> key, mine |-> mine, got |-> got]
IdleRecorder == Recorder("idle", "graphics", 1, 0, 0)

CacheInit ==
    /\ pipelines = [kind \in PipelineKinds |-> <<>>]
    /\ recorders = [r \in Recorders |-> IdleRecorder]
    /\ firstAdded = [kind \in PipelineKinds |-> [key \in UniqueKeys |-> 0]]

\* the x axis of a rescale by factor of a source SrcSize wide: steps is
\* xSteps (-1 before downscale_step_count ran), count the value it had first,
\* stepW the width of stepBoundsF, taken the sx of the iterations so far
RescaleAxis(factor) ==
    [factor |-> factor, steps |-> -1, count |-> -1, stepW |-> QInt(SrcSize),
     taken |-> <<>>]
\* no rescale under way
NotRescaling == [RescaleAxis(Q(1, 1)) EXCEPT !.stepW = Q(0, 1)]

\* FilterResult(image, origin) of a 4x4 source image
FilterInit ==
    /\ fr = MakeFilterResult(Image(1, 0, 0, 4, 4, 4, 4), [x |-> 0, y |-> 0])
    /\ prev = EmptyResult
    /\ op = NoOp
    /\ ctx = Rect(0, 0, 4, 4)
    /\ be = FreshBackend(2)
    /\ nops = 0

\* no static helper called yet
NoCall == [fn |-> "none", args |-> <<>>, result |-> <<>>]
\* FilterResult::draw not called yet.  clip is the device's clip stack, its
\* last entry the current clip; frames counts the calls of draw in progress.
NotDrawing ==
    [pc |-> "idle", f |-> EmptyResult, localToDevice |-> Identity, clip |-> << >>,
     blender |-> "none", preserveDeviceState |-> FALSE, orc |-> Oracle({}, {}),
     bk |-> FreshBackend(2),
     analysis |-> [kRequiresLayerCrop |-> FALSE, kDstBoundsNotCovered |-> FALSE,
                   kHasLayerFillingEffect |-> FALSE],
     frames |-> 0, calls |-> 0, pushes |-> 0, pops |-> 0, drawn |-> "nothing"]

Init ==
    /\ FilterInit
    /\ rs = NotRescaling
    /\ mapping = NewMapping
    /\ mcall = NoMappingCall
    /\ CacheInit
    /\ call = NoCall
    /\ dr = NotDrawing

Step(r, o, d) ==
    /\ fr' = r.fr
    /\ prev' = fr
    /\ op' = o
    /\ ctx' = d
    /\ be' = r.bk
    /\ nops' = nops + 1
    /\ UNCHANGED otherVars

\* The backend's choices an operation can see: none when it makes no surface
\* at all, else those about the calls it makes.
NoFailure == Oracle({}, {})
Consulted(orc, bk) == orc.dev \subseteq 1..bk.calls /\ orc.snap \subseteq 1..bk.snaps
OraclesFor(r0) == IF r0.bk.marks = 0 THEN {NoFailure} ELSE Oracles

ApplyCrop ==
    /\ nops < MaxOps
    /\ \E d \in Outputs, crop \in Crops, tm \in TileModes :
        \E r0 \in {applyCrop(fr, d, crop, tm, FreshBackend(be.nextId), NoFailure)} :
            \E orc \in OraclesFor(r0) :
                \E r \in {applyCrop(fr, d, crop, tm, FreshBackend(be.nextId), orc)} :
                    /\ Consulted(orc, r.bk)
                    /\ Step(r, [NoOp EXCEPT !.name = "applyCrop", !.crop = crop,
                                            !.tileMode = tm], d)

ApplyColorFilter ==
    /\ nops < MaxOps
    /\ \E d \in Outputs, cf \in ColorFilters :
        \E r0 \in {applyColorFilter(fr, d, cf, FreshBackend(be.nextId), NoFailure)} :
            \E orc \in OraclesFor(r0) :
                \E r \in {applyColorFilter(fr, d, cf, FreshBackend(be.nextId), orc)} :
                    /\ Consulted(orc, r.bk)
                    /\ Step(r, [NoOp EXCEPT !.name = "applyColorFilter", !.cf = cf], d)

ApplyTransform ==
    /\ nops < MaxOps
    /\ \E d \in Outputs, t \in Xforms :
        \E s \in IF is_nearly_integer_translation(t) THEN {kDefaultSampling}
                 ELSE Samplings :
            /\ Abs(fr.transform.sx * t.sx) <= MaxScale
            /\ Abs(fr.transform.sy * t.sy) <= MaxScale
            /\ \E r0 \in {applyTransform(fr, d, t, s, FreshBackend(be.nextId), NoFailure)} :
                \E orc \in OraclesFor(r0) :
                    \E r \in {applyTransform(fr, d, t, s, FreshBackend(be.nextId), orc)} :
                        /\ Consulted(orc, r.bk)
                        /\ Step(r, [NoOp EXCEPT !.name = "applyTransform", !.xform = t,
                                                !.sampling = s], d)

Rescale ==
    /\ nops < MaxOps
    /\ \E d \in Outputs, scale \in Scales, enforceDecal \in BOOLEAN, sameFormat \in BOOLEAN :
        \E r0 \in {rescale(fr, d, scale, enforceDecal, sameFormat,
                           FreshBackend(be.nextId), NoFailure)} :
            \E orc \in OraclesFor(r0) :
                \E r \in {rescale(fr, d, scale, enforceDecal, sameFormat,
                                  FreshBackend(be.nextId), orc)} :
                    /\ Consulted(orc, r.bk)
                    /\ Step(r, [NoOp EXCEPT !.name = "rescale", !.scale = scale,
                                            !.enforceDecal = enforceDecal], d)

\* A pipeline may also start from a shader drawn into a surface, in place of
\* the source image.
FromShader ==
    /\ nops < MaxOps
    /\ op.name = "none"
    /\ \E d \in Outputs, orc \in Oracles :
        \E r \in {MakeFromShader(d, FreshBackend(be.nextId), orc)} :
            /\ Consulted(orc, r.bk)
            /\ fr' = r.fr
            /\ prev' = EmptyResult
            /\ op' = [NoOp EXCEPT !.name = "MakeFromShader"]
            /\ ctx' = d
            /\ be' = r.bk
            /\ nops' = nops + 1
            /\ UNCHANGED otherVars

Next == FromShader \/ ApplyCrop \/ ApplyColorFilter \/ ApplyTransform \/ Rescale

Spec == Init /\ [][Next]_vars

---------------------------------------------------------------------------
(* The steps of one axis of rescale: downscale_step_count, then the loop.     *)

ScaleFactors == {Q(n, 100) : n \in 1..MaxPercent}

StepInit ==
    /\ FilterInit
    /\ \E factor \in ScaleFactors : rs = RescaleAxis(factor)
    /\ mapping = NewMapping
    /\ mcall = NoMappingCall
    /\ CacheInit
    /\ call = NoCall
    /\ dr = NotDrawing

\* int xSteps = downscale_step_count(scale.width())
CountSteps ==
    /\ rs # NotRescaling /\ rs.count = -1
    /\ \E steps \in {downscale_step_count(rs.factor)} :
          rs' = [rs EXCEPT !.steps = steps, !.count = steps]
    /\ UNCHANGED <<filterVars, dr, call, mapping, mcall, pipelines, recorders, firstAdded>>

\* one iteration of the loop of rescale that still has a step to take on x
ScaleStep ==
    /\ rs.steps > 0
    /\ \E sx \in {stepScale(rs.steps, SrcSize, rs.factor, rs.stepW)} :
          rs' = [rs EXCEPT !.steps = @ - 1, !.stepW = QMul(@, sx),
                           !.taken = Append(@, sx)]
    /\ UNCHANGED <<filterVars, dr, call, mapping, mcall, pipelines, recorders, firstAdded>>

StepNext == CountSteps \/ ScaleStep

StepSpec == StepInit /\ [][StepNext]_vars

---------------------------------------------------------------------------
(* A Mapping and the calls that set its matrices.                             *)

Capabilities == {"Translate", "ScaleTranslate", "Complex"}
\* current transforms: the identity, a translation, a scale and translation,
\* a singular scale, two rotations with a scale, and two singular matrices
\* with skew
Ctms == {AffI, Aff(1, 0, 0, 1, 2, 3), Aff(2, 0, 0, 3, 1, 0), Aff(0, 0, 0, 1, 0, 0),
         Aff(0, -2, 2, 0, 0, 1), Aff(3, -4, 4, 3, 0, 0),
         Aff(3, 3, 4, 4, 0, 0), Aff(0, 1, 0, 1, 0, 0)}
Layers == {Aff(2, 0, 0, 2, 0, 0), Aff(1, 0, 0, 1, 1, 1), Aff(0, 1, -1, 0, 0, 0),
           Aff(0, 0, 0, 0, 0, 0), Aff(1, 2, 2, 4, 0, 0)}

DecomposeCTM ==
    /\ mcall.n < MaxMappingCalls
    /\ \E ctm \in Ctms, capability \in Capabilities :
        \E r \in {decomposeCTM(mapping, ctm, capability)} :
            /\ mapping' = r.mapping
            /\ mcall' = MappingCall("decomposeCTM", ctm, capability, r.ok, r.remainder,
                                    mapping, mcall.n + 1,
                                    IF r.ok THEN ctm ELSE mcall.ctm)
    /\ UNCHANGED <<filterVars, dr, call, rs, pipelines, recorders, firstAdded>>

AdjustLayerSpace ==
    /\ mcall.n < MaxMappingCalls
    /\ \E layer \in Layers :
        \E r \in {adjustLayerSpace(mapping, layer)} :
            /\ mapping' = r.mapping
            /\ mcall' = MappingCall("adjustLayerSpace", layer, "Complex", r.ok, AffI,
                                    mapping, mcall.n + 1, mcall.ctm)
    /\ UNCHANGED <<filterVars, dr, call, rs, pipelines, recorders, firstAdded>>

MappingNext == DecomposeCTM \/ AdjustLayerSpace

MappingSpec == Init /\ [][MappingNext]_vars

---------------------------------------------------------------------------
(* Recorders that look a pipeline up in the GlobalCache, create it when it    *)
(* is not there, and add it; each call on the cache holds fSpinLock, the      *)
(* creation does not.                                                         *)

\* a Recorder queries the cache for a key
FindPipeline(r) ==
    /\ recorders[r].pc = "idle"
    /\ \E kind \in PipelineKinds, key \in UniqueKeys :
        \E found \in {findPipeline(pipelines[kind], key)} :
            /\ pipelines' = [pipelines EXCEPT ![kind] = found.entries]
            /\ recorders' = [recorders EXCEPT ![r] =
                    IF found.pipeline # 0
                    THEN Recorder("done", kind, key, 0, found.pipeline)
                    ELSE Recorder("create", kind, key, 0, 0)]
    /\ UNCHANGED <<filterVars, dr, call, rs, mapping, mcall, firstAdded>>

\* a Recorder whose query found nothing creates the pipeline on its own
CreatePipeline(r) ==
    /\ recorders[r].pc = "create"
    /\ recorders' = [recorders EXCEPT ![r].pc = "add", ![r].mine = r]
    /\ UNCHANGED <<filterVars, dr, call, rs, mapping, mcall, pipelines, firstAdded>>

\* a Recorder adds the pipeline it created
AddPipeline(r) ==
    /\ recorders[r].pc = "add"
    /\ \E kind \in {recorders[r].kind}, key \in {recorders[r].key} :
        \E added \in {addPipeline(pipelines[kind], key, recorders[r].mine)} :
            /\ pipelines' = [pipelines EXCEPT ![kind] = added.entries]
            /\ recorders' = [recorders EXCEPT ![r].pc = "done",
                                              ![r].got = added.pipeline]
            /\ firstAdded' = IF firstAdded[kind][key] # 0 THEN firstAdded
                             ELSE [firstAdded EXCEPT ![kind][key] = recorders[r].mine]
    /\ UNCHANGED <<filterVars, dr, call, rs, mapping, mcall>>

CacheNext ==
    \E r \in Recorders : FindPipeline(r) \/ CreatePipeline(r) \/ AddPipeline(r)

CacheSpec == Init /\ [][CacheNext]_vars
---------------------------------------------------------------------------
(* The helpers that keep no state, each called once on arguments of its own.  *)

SamplingInputs == Samplings \cup {CubicSampling(2), AnisoSampling(3)}

\* compatible_sampling(currentSampling, currentXformWontAffectNearest,
\*                     &nextSampling, nextXformWontAffectNearest)
CompatibleSampling ==
    /\ call = NoCall
    /\ \E cur \in SamplingInputs, next \in SamplingInputs,
          curNear \in BOOLEAN, nextNear \in BOOLEAN :
          call' = [fn |-> "compatible_sampling",
                   args |-> <<cur, curNear, next, nextNear>>,
                   result |-> compatible_sampling(cur, curNear, next, nextNear)]
    /\ UNCHANGED <<filterVars, dr, rs, mapping, mcall, pipelines, recorders, firstAdded>>

\* receivers of analyzeBounds: a whole 4x4 image or a 4x4 subset of a 6x6 one,
\* under a folded transform, decal-tiled within its own bounds or tiled
\* otherwise over an earlier desired output
AnalyzedImages == {Image(1, 0, 0, 4, 4, 4, 4), Image(1, 1, 1, 4, 4, 6, 6)}
AnalyzedXforms == {Identity, Matrix(1, 1, 1, 0), Matrix(2, 2, 0, 0), Matrix(-1, 1, 8, 0)}
Analyzed(image, transform, sampling, tileMode) ==
    [image |-> image, transform |-> transform, sampling |-> sampling,
     tileMode |-> tileMode, colorFilter |-> NoFilter,
     layerBounds |-> IF tileMode = "decal"
                     THEN MapIRect(transform, Rect(0, 0, image.w, image.h))
                     ELSE Rect(-2, -2, 6, 6)]
AnalyzedDsts == {Rect(0, 0, 4, 4), Rect(1, 1, 3, 3), Rect(2, 2, 6, 6), Rect(-2, -2, 6, 6)}

\* FilterResult::analyzeBounds(xtraTransform, dstBounds)
AnalyzeBounds ==
    /\ call = NoCall
    /\ \E image \in AnalyzedImages, transform \in AnalyzedXforms,
          sampling \in Samplings, tileMode \in TileModes,
          xtraTransform \in {Identity, Matrix(2, 2, 0, 0)}, dstBounds \in AnalyzedDsts :
          \E f \in {Analyzed(image, transform, sampling, tileMode)} :
              call' = [fn |-> "analyzeBounds",
                       args |-> <<f, xtraTransform, dstBounds>>,
                       result |-> [bounds |-> analyzeBounds(f, xtraTransform, dstBounds),
                                   tiling |-> analyzeTiling(f, xtraTransform, dstBounds)]]
    /\ UNCHANGED <<filterVars, dr, rs, mapping, mcall, pipelines, recorders, firstAdded>>

\* crops to tile, and outputs up to MaxPeriods periods off them
MaxPeriods == 2
PeriodicCrops == {Rect(0, 0, 4, 4), Rect(1, 0, 3, 4), Rect(3, 1, 5, 4)}
PeriodicOutputs ==
    {Rect(l, t, l + w, t + h) : l \in (-4 * MaxPeriods)..(4 * MaxPeriods),
                                t \in {-5, 0, 3}, w \in {1, 2, 4}, h \in {1, 3}}

\* periodic_axis_transform(tileMode, crop, output)
PeriodicAxisTransform ==
    /\ call = NoCall
    /\ \E tileMode \in TileModes, crop \in PeriodicCrops, output \in PeriodicOutputs :
          call' = [fn |-> "periodic_axis_transform",
                   args |-> <<tileMode, crop, output>>,
                   result |-> periodic_axis_transform(tileMode, crop, output)]
    /\ UNCHANGED <<filterVars, dr, rs, mapping, mcall, pipelines, recorders, firstAdded>>

HelperNext == CompatibleSampling \/ AnalyzeBounds \/ PeriodicAxisTransform

HelperSpec == Init /\ [][HelperNext]_vars
---------------------------------------------------------------------------
(* FilterResult::draw(ctx, device, preserveDeviceState, blender), a step at a *)
(* time.                                                                      *)

\* no blender, one that keeps transparent black, one that does not
Blenders == {"none", "keeps", "affects"}
\* receivers: empty, a whole image, scaled, tiled, color filtered, and one
\* whose layer bounds cut into its image
DrawnImage == Image(1, 0, 0, 4, 4, 4, 4)
DrawnResults ==
    {EmptyResult}
        \cup {Analyzed(DrawnImage, t, kDefaultSampling, tm) :
                 t \in {Identity, Matrix(2, 2, 0, 0)}, tm \in {"decal", "clamp"}}
        \cup {[Analyzed(DrawnImage, Identity, kDefaultSampling, "decal")
                 EXCEPT !.layerBounds = Rect(1, 0, 3, 4)],
              [Analyzed(DrawnImage, Identity, kDefaultSampling, "decal")
                 EXCEPT !.colorFilter = CF_Invert, !.layerBounds = Rect(-2, -2, 6, 6)]}
\* device->localToDevice(): the last one cannot be inverted
DeviceMatrices == {Identity, Translate(1, 0), Matrix(0, 1, 0, 0)}
DeviceClips == {Rect(0, 0, 4, 4), Rect(-2, -2, 6, 6), Rect(1, 1, 3, 3)}
DrawOracles == {NoFailure, Oracle({1}, {}), Oracle({}, {1})}

blendAffectsTransparentBlack == dr.blender = "affects"
devClipBounds == dr.clip[Len(dr.clip)]

\* a caller enters draw
Draw ==
    /\ dr = NotDrawing
    /\ \E f \in DrawnResults, m \in DeviceMatrices, c \in DeviceClips,
          blender \in Blenders, preserve \in BOOLEAN, orc \in DrawOracles :
          dr' = [dr EXCEPT !.pc = "entry", !.f = f, !.localToDevice = m,
                           !.clip = <<c>>, !.blender = blender,
                           !.preserveDeviceState = preserve, !.orc = orc,
                           !.frames = 1, !.calls = 1]
    /\ UNCHANGED <<filterVars, rs, mapping, mcall, pipelines, recorders, firstAdded, call>>

\* if (!fImage) { ...; return; }
DrawNoImage ==
    /\ dr.pc = "entry" /\ dr.f.image = NoImage
    /\ dr' = [dr EXCEPT !.pc = "returned",
                        !.drawn = IF blendAffectsTransparentBlack THEN "clear" ELSE @]
    /\ UNCHANGED <<filterVars, rs, mapping, mcall, pipelines, recorders, firstAdded, call>>

\* analysis = analyzeBounds(device->localToDevice(), device->devClipBounds())
DrawAnalyze ==
    /\ dr.pc = "entry" /\ dr.f.image # NoImage
    /\ dr' = [dr EXCEPT !.pc = "analyzed",
                        !.analysis = analyzeBounds(dr.f, dr.localToDevice, devClipBounds)]
    /\ UNCHANGED <<filterVars, rs, mapping, mcall, pipelines, recorders, firstAdded, call>>

\* inverseMapRect fails: return
DrawNotInvertible ==
    /\ dr.pc = "analyzed" /\ dr.analysis.kRequiresLayerCrop
    /\ blendAffectsTransparentBlack
    /\ ~inverseMapRect(dr.localToDevice, devClipBounds).ok
    /\ dr' = [dr EXCEPT !.pc = "returned"]
    /\ UNCHANGED <<filterVars, rs, mapping, mcall, pipelines, recorders, firstAdded, call>>

\* the resolve and redraw of draw, wrongly leaving the receiver's layer bounds
\* on the resolved image
DrawResolvedKeepingCrop ==
    /\ dr.pc = "analyzed" /\ dr.analysis.kRequiresLayerCrop
    /\ blendAffectsTransparentBlack
    /\ inverseMapRect(dr.localToDevice, devClipBounds).ok
    /\ \E r \in {resolve(dr.f, inverseMapRect(dr.localToDevice, devClipBounds).rect,
                          FALSE, dr.bk, dr.orc)} :
          dr' = [dr EXCEPT !.pc = "entry",
                           !.f = IF r.image = NoImage THEN EmptyResult
                                 ELSE [MakeFilterResult(r.image, r.origin)
                                          EXCEPT !.tileMode = dr.f.tileMode,
                                                 !.layerBounds = dr.f.layerBounds],
                           !.bk = r.bk, !.frames = @ + 1, !.calls = @ + 1]
    /\ UNCHANGED <<filterVars, rs, mapping, mcall, pipelines, recorders, firstAdded, call>>

\* clipped = resolve(ctx, dstBounds); clipped.draw(ctx, device, ...): a
\* further frame of draw is entered with the resolved image as receiver
DrawResolved ==
    /\ dr.pc = "analyzed" /\ dr.analysis.kRequiresLayerCrop
    /\ blendAffectsTransparentBlack
    /\ inverseMapRect(dr.localToDevice, devClipBounds).ok
    /\ \E r \in {resolve(dr.f, inverseMapRect(dr.localToDevice, devClipBounds).rect,
                          FALSE, dr.bk, dr.orc)} :
          dr' = [dr EXCEPT !.pc = "entry", !.f = MakeFilterResult(r.image, r.origin),
                           !.bk = r.bk, !.frames = @ + 1, !.calls = @ + 1]
    /\ UNCHANGED <<filterVars, rs, mapping, mcall, pipelines, recorders, firstAdded, call>>

\* if (preserveDeviceState) pushClipStack(); clipRect(fLayerBounds)
DrawClipped ==
    /\ dr.pc = "analyzed" /\ dr.analysis.kRequiresLayerCrop
    /\ ~blendAffectsTransparentBlack
    /\ \E clipped \in {RawIntersect(devClipBounds,
                                     MapIRect(dr.localToDevice, dr.f.layerBounds))} :
          dr' = [dr EXCEPT !.pc = "paint",
                           !.clip = IF dr.preserveDeviceState
                                    THEN Append(@, clipped)
                                    ELSE [@ EXCEPT ![Len(@)] = clipped],
                           !.pushes = IF dr.preserveDeviceState THEN @ + 1 ELSE @]
    /\ UNCHANGED <<filterVars, rs, mapping, mcall, pipelines, recorders, firstAdded, call>>

\* no layer crop is required
DrawUnclipped ==
    /\ dr.pc = "analyzed" /\ ~dr.analysis.kRequiresLayerCrop
    /\ dr' = [dr EXCEPT !.pc = "paint"]
    /\ UNCHANGED <<filterVars, rs, mapping, mcall, pipelines, recorders, firstAdded, call>>

\* drawPaint with the analyzed shader, or drawSpecial
DrawPaint ==
    /\ dr.pc = "paint"
    /\ dr' = [dr EXCEPT !.pc = "painted",
                        !.drawn = IF \/ dr.analysis.kHasLayerFillingEffect
                                     \/ (blendAffectsTransparentBlack
                                            /\ dr.analysis.kDstBoundsNotCovered)
                                  THEN "drawPaint" ELSE "drawSpecial"]
    /\ UNCHANGED <<filterVars, rs, mapping, mcall, pipelines, recorders, firstAdded, call>>

\* the end of draw, wrongly popping only when a layer-filling effect was drawn
DrawRestoreFilled ==
    /\ dr.pc = "painted"
    /\ \E pop \in {dr.preserveDeviceState /\ dr.analysis.kHasLayerFillingEffect} :
          dr' = [dr EXCEPT !.pc = "returned",
                           !.clip = IF pop /\ Len(@) > 1 THEN SubSeq(@, 1, Len(@) - 1)
                                    ELSE @,
                           !.pops = IF pop THEN @ + 1 ELSE @]
    /\ UNCHANGED <<filterVars, rs, mapping, mcall, pipelines, recorders, firstAdded, call>>

\* if (preserveDeviceState && (analysis & kRequiresLayerCrop)) popClipStack()
DrawRestore ==
    /\ dr.pc = "painted"
    /\ \E pop \in {dr.preserveDeviceState /\ dr.analysis.kRequiresLayerCrop} :
          dr' = [dr EXCEPT !.pc = "returned",
                           !.clip = IF pop THEN SubSeq(@, 1, Len(@) - 1) ELSE @,
                           !.pops = IF pop THEN @ + 1 ELSE @]
    /\ UNCHANGED <<filterVars, rs, mapping, mcall, pipelines, recorders, firstAdded, call>>

\* clipped.draw(...) has returned to the frame that called it: return
DrawReturn ==
    /\ dr.pc = "returned" /\ dr.frames > 1
    /\ dr' = [dr EXCEPT !.frames = @ - 1]
    /\ UNCHANGED <<filterVars, rs, mapping, mcall, pipelines, recorders, firstAdded, call>>

\* the steps draw takes once entered
DrawStep ==
    \/ DrawNoImage \/ DrawAnalyze \/ DrawNotInvertible \/ DrawResolved
    \/ DrawClipped \/ DrawUnclipped \/ DrawPaint \/ DrawRestore \/ DrawReturn

DrawNext == Draw \/ DrawStep

DrawSpec == Init /\ [][DrawNext]_vars
\* draw is straight-line code on one thread: a step that can be taken is taken
DrawLive == DrawSpec /\ WF_vars(DrawStep)

---------------------------------------------------------------------------
(* Properties *)

\* a lies inside b (an empty a lies inside anything)
Within(a, b) == IsEmpty(a) \/ (b.l <= a.l /\ b.t <= a.t /\ a.r <= b.r /\ a.b <= b.b)
Acted == op.name # "none"
NonEmpty(f) == f.image # NoImage
KeepsTransparentBlack(cf) == cf = NoFilter \/ ~affectsTransparentBlack(cf)
IntegerTranslations == {t \in Xforms : is_nearly_integer_translation(t)}
\* the backend as the next operation would find it
NextBackend == FreshBackend(be.nextId)

\* C1: every non-empty FilterResult returned by applyCrop, applyColorFilter,
\* applyTransform or rescale has its layerBounds inside the desired output of
\* the context it was evaluated under.
C1_LayerBoundsInOutput == (Acted /\ NonEmpty(fr)) => Within(fr.layerBounds, ctx)
\* an applyTransform whose mapped layer bounds were cut by the desired output
C1_Witness ==
    /\ op.name = "applyTransform" /\ NonEmpty(fr)
    /\ fr.layerBounds # MapIRect(op.xform, prev.layerBounds)
    /\ fr.layerBounds # ctx

\* C2: whenever a FilterResult's transform is a near-integer translation, its
\* sampling is kDefaultSampling (the assertion at the top of applyTransform).
C2_IntegerTransformHasDefaultSampling ==
    (NonEmpty(fr) /\ is_nearly_integer_translation(fr.transform))
        => fr.sampling = kDefaultSampling

\* C3: a returned FilterResult whose tile mode is not decal and whose color
\* filter does not affect transparent black has layerBounds equal to the
\* desired output of the context that produced it.
C3_TiledResultFillsOutput ==
    (Acted /\ NonEmpty(fr) /\ fr.tileMode # "decal"
           /\ KeepsTransparentBlack(fr.colorFilter))
        => fr.layerBounds = ctx

\* C4: a FilterResult with no image has no color filter and empty layerBounds,
\* on every path, the backend's failures included.
C4_AbsentImageIsEmpty ==
    ~NonEmpty(fr) => (fr.colorFilter = NoFilter /\ IsEmpty(fr.layerBounds))

\* C5: when makeDevice returns no device during an operation, the operation
\* returns a FilterResult without image, and the failed call is the last
\* makeDevice call it makes.
C5_DeviceFailureAborts ==
    be.firstFail # 0 => (~NonEmpty(fr) /\ be.calls = be.firstFail)
\* a rescale of two or more steps whose first surface could not be made
C5_Witness ==
    /\ op.name = "rescale" /\ op.scale.w.d >= 4
    /\ be.firstFail = 1 /\ be.calls = 1

\* C6: when an operation returns, no canvas of an AutoSurface it made is
\* held, no AutoSurface was snapped twice, and snapping its last AutoSurface
\* again yields no image.
C6_CanvasesReleased ==
    /\ be.held = 0
    /\ ~be.surface.fCanvas
    /\ be.surface.snapped <= 1
    /\ AutoSurfaceSnap(be, NoFailure).image = NoImage
\* a rescale that snapped one surface and then failed to make the next
C6_Witness ==
    /\ op.name = "rescale"
    /\ be.marks = 2 /\ be.snaps = 1 /\ be.firstFail = 2

\* C8: applyTransform with a near-integer translation creates no surface,
\* whatever the receiver's sampling, tile mode, color filter and layer bounds.
C8_IntegerTranslationMakesNoSurface ==
    (op.name = "applyTransform" /\ is_nearly_integer_translation(op.xform))
        => (be.marks = 0 /\ be.calls = 0)
\* a translation by a pixel of a clamp-tiled, nearest-sampled result
C8_Witness ==
    /\ op.name = "applyTransform" /\ op.xform = Translate(1, 0)
    /\ NonEmpty(fr) /\ prev.sampling # kDefaultSampling
    /\ fr.transform = postConcat(prev.transform, op.xform)

\* C10: applyColorFilter(f) and then applyColorFilter(g), for f and g that
\* keep transparent black, returns what one applyColorFilter of g-after-f
\* returns, and its pending filter applies the receiver's filter, then f,
\* then g.
C10_ColorFiltersCompose ==
    (op.name = "applyColorFilter" /\ ~affectsTransparentBlack(op.cf))
        => \A g \in {c \in ColorFilters : ~affectsTransparentBlack(c)} :
              LET two == applyColorFilter(fr, ctx, g, NextBackend, NoFailure).fr
                  one == applyColorFilter(prev, ctx, ComposeCF(g, op.cf),
                                          NextBackend, NoFailure).fr
              IN /\ two = one
                 /\ NonEmpty(two) =>
                        two.colorFilter = ComposeCF(g, ComposeCF(op.cf, prev.colorFilter))
\* f applied to a result that already has a pending filter, g not commuting with f
C10_Witness ==
    /\ op.name = "applyColorFilter" /\ op.cf = CF_F
    /\ prev.colorFilter # NoFilter /\ NonEmpty(fr)
    /\ ComposeCF(CF_G, fr.colorFilter) # ComposeCF(CF_F, ComposeCF(CF_G, prev.colorFilter))

\* the result without its layerBounds
Pending(f) == [f EXCEPT !.layerBounds = EmptyRect]

\* C7 as stated: applyTransform(t1) and then applyTransform(t2), for
\* near-integer translations under one context, returns what one
\* applyTransform(t2 . t1) returns, layerBounds included.
C7_TranslationsCompose ==
    (op.name = "applyTransform" /\ is_nearly_integer_translation(op.xform))
        => \A t2 \in IntegerTranslations :
              applyTransform(fr, ctx, t2, kDefaultSampling, NextBackend, NoFailure).fr
              = applyTransform(prev, ctx, postConcat(op.xform, t2), kDefaultSampling,
                               NextBackend, NoFailure).fr
\* C7, amended: when the two-step result is not empty it has the image,
\* transform, sampling, tile mode and color filter of the one-step result and
\* its layerBounds lie inside the one-step result's; the two are equal when
\* the first translation keeps the receiver's layerBounds inside the desired
\* output.
C7_TranslationsComposeUpToBounds ==
    (op.name = "applyTransform" /\ is_nearly_integer_translation(op.xform))
        => \A t2 \in IntegerTranslations :
              LET two == applyTransform(fr, ctx, t2, kDefaultSampling,
                                        NextBackend, NoFailure).fr
                  one == applyTransform(prev, ctx, postConcat(op.xform, t2),
                                        kDefaultSampling, NextBackend, NoFailure).fr
              IN /\ NonEmpty(two) =>
                        /\ Pending(two) = Pending(one)
                        /\ Within(two.layerBounds, one.layerBounds)
                 /\ Within(MapIRect(op.xform, prev.layerBounds), ctx) => two = one
\* a translation cut by the desired output, then the translation back
C7_Witness ==
    /\ op.name = "applyTransform" /\ op.xform = Translate(1, 0)
    /\ NonEmpty(fr) /\ fr.layerBounds # MapIRect(op.xform, prev.layerBounds)
    /\ NonEmpty(applyTransform(fr, ctx, Translate(-1, 0), kDefaultSampling,
                               NextBackend, NoFailure).fr)

\* C9 as stated: applyCrop(R, m) of the result of applyCrop(R, m), under the
\* same context, has the layerBounds and the tile mode of that result.
C9_CropIdempotent ==
    (op.name = "applyCrop" /\ NonEmpty(fr))
        => LET again == applyCrop(fr, ctx, op.crop, op.tileMode, NextBackend, NoFailure).fr
           IN /\ again.layerBounds = fr.layerBounds
              /\ again.tileMode = fr.tileMode
\* C9, amended: a decal applyCrop(R) of the result of a decal applyCrop(R)
\* returns that result unchanged; with any tile mode, the second application
\* returns the empty result or a result with the layerBounds and the tile
\* mode of the first.
C9_DecalCropIdempotent ==
    (op.name = "applyCrop" /\ NonEmpty(fr))
        => LET again == applyCrop(fr, ctx, op.crop, op.tileMode, NextBackend, NoFailure).fr
           IN /\ op.tileMode = "decal" => again = fr
              /\ NonEmpty(again) => (/\ again.layerBounds = fr.layerBounds
                                     /\ again.tileMode = fr.tileMode)
\* a decal crop that cut the receiver's layer bounds
C9_Witness ==
    /\ op.name = "applyCrop" /\ op.tileMode = "decal"
    /\ NonEmpty(fr) /\ fr.layerBounds # prev.layerBounds
    /\ fr.layerBounds # ctx

SinglePeriod(tileMode, crop, output) ==
    /\ tileMode \in {"repeat", "mirror"}
    /\ ~IsEmpty(crop) /\ ~IsEmpty(output)
    /\ periodic_axis_transform(tileMode, crop, output).some

\* C12 as stated: an applyCrop with tile mode repeat or mirror whose desired
\* output lies within a single period of the crop creates no surface,
\* whatever the receiver.
C12_SinglePeriodMakesNoSurface ==
    (op.name = "applyCrop" /\ SinglePeriod(op.tileMode, op.crop, ctx))
        => (be.marks = 0 /\ be.calls = 0)
\* C12, amended: such an applyCrop creates no surface when the transform of
\* the single period is an integer translation (repeat, or an unflipped
\* period of mirror), or when the receiver needs no layer crop under that
\* transform and its sampling merges with the default; otherwise it creates
\* at most one, in resolve.
C12_SinglePeriodSurfaces ==
    (op.name = "applyCrop" /\ SinglePeriod(op.tileMode, op.crop, ctx))
        => \A m \in {periodic_axis_transform(op.tileMode, op.crop, ctx).m} :
              /\ be.marks <= 1
              /\ (\/ ~NonEmpty(prev)
                  \/ is_nearly_integer_translation(m)
                  \/ /\ ~analyzeBounds(prev, m, ctx).kRequiresLayerCrop
                     /\ compatible_sampling(prev.sampling,
                                            is_nearly_integer_translation(prev.transform),
                                            kDefaultSampling, FALSE).ok)
                 => (be.marks = 0 /\ be.calls = 0)
\* a flipped period of a mirror crop folded into the receiver's transform
C12_Witness ==
    /\ op.name = "applyCrop" /\ op.tileMode = "mirror"
    /\ SinglePeriod(op.tileMode, op.crop, ctx)
    /\ ~is_nearly_integer_translation(periodic_axis_transform(op.tileMode, op.crop, ctx).m)
    /\ NonEmpty(fr) /\ be.marks = 0
    /\ fr.transform = postConcat(prev.transform,
                                 periodic_axis_transform(op.tileMode, op.crop, ctx).m)

\* destination rectangles resolve is tried on, and the colors of a texel
DstRects == Outputs \cup Crops
Colors == 1..3
\* the image of f as its transform places it, rounded out
ImageBounds(f) == MapIRect(f.transform, Rect(0, 0, f.image.w, f.image.h))
\* resolve(dstBounds) of f yields no image, or an image no pixel of which
\* draw() colored
ResolvesTransparent(f, dstBounds) ==
    \/ resolve(f, dstBounds, FALSE, NextBackend, NoFailure).image = NoImage
    \/ \A texel \in Colors :
          drawnOutsideImage(f, IntersectOr(dstBounds, f.layerBounds), texel) = Transparent

\* C13 as stated: resolving a decal-tiled FilterResult, whatever its color
\* filter and layerBounds, to a rectangle disjoint from the image's mapped
\* bounds yields a fully transparent image.
C13_DecalResolveDisjoint ==
    \A dst \in DstRects :
        (NonEmpty(fr) /\ fr.tileMode = "decal" /\ ~Intersects(dst, ImageBounds(fr)))
            => ResolvesTransparent(fr, dst)
\* C13, amended: it does when the color filter does not affect transparent
\* black.
C13_DecalResolveDisjointUnfilled ==
    \A dst \in DstRects :
        (/\ NonEmpty(fr) /\ fr.tileMode = "decal"
         /\ KeepsTransparentBlack(fr.colorFilter)
         /\ ~Intersects(dst, ImageBounds(fr)))
            => ResolvesTransparent(fr, dst)
\* a decal result with a pending filter that keeps transparent black, which
\* resolve draws into a surface over a rectangle beside the image
C13_Witness ==
    /\ NonEmpty(fr) /\ fr.tileMode = "decal" /\ fr.colorFilter # NoFilter
    /\ KeepsTransparentBlack(fr.colorFilter)
    /\ \E dst \in DstRects :
          /\ ~Intersects(dst, ImageBounds(fr))
          /\ resolve(fr, dst, FALSE, NextBackend, NoFailure).image # NoImage

\* the 10x10 image at the origin of the examples, and contexts to crop it in
Image10 == MakeFilterResult(Image(1, 0, 0, 10, 10, 10, 10), [x |-> 0, y |-> 0])
Outputs10 == {Rect(0, 0, 30, 30), Rect(20, 20, 30, 30), Rect(15, 15, 25, 25)}

\* C14 as stated: applyCrop(crop, clamp) on a decal-tiled image whose bounds
\* are disjoint from crop returns a non-empty FilterResult, the closest edge
\* pixel of the image stretched over crop; for the 10x10 image and crop
\* [20,20,30,30] its image is the pixel (9,9).
C14_ClampDisjointStretchesEdge ==
    /\ \A d \in Outputs, crop \in Crops :
          (/\ NonEmpty(fr) /\ fr.tileMode = "decal"
           /\ KeepsTransparentBlack(fr.colorFilter)
           /\ ~Intersects(crop, ImageBounds(fr)))
              => NonEmpty(applyCrop(fr, d, crop, "clamp", NextBackend, NoFailure).fr)
    /\ \A d \in Outputs10 :
          applyCrop(Image10, d, Rect(20, 20, 30, 30), "clamp", NextBackend, NoFailure).fr.image
              = makeSubset(Image10.image, Rect(9, 9, 10, 10))
\* C14, amended: applyCrop(crop, m) on a FilterResult whose layerBounds (for
\* a decal-tiled image, within the image's bounds) are disjoint from crop
\* returns the empty FilterResult and creates no surface, for every tile
\* mode m; so it does for the 10x10 image and crop [20,20,30,30].
C14_DisjointCropIsEmpty ==
    /\ \A d \in Outputs, crop \in Crops, m \in TileModes :
          (NonEmpty(fr) /\ ~Intersects(crop, fr.layerBounds))
              => \A r \in {applyCrop(fr, d, crop, m, NextBackend, NoFailure)} :
                    r.fr = EmptyResult /\ r.bk.marks = 0
    /\ \A d \in Outputs10, m \in TileModes :
          applyCrop(Image10, d, Rect(20, 20, 30, 30), m, NextBackend, NoFailure).fr
              = EmptyResult
\* a decal-tiled image beside a crop that a desired output overlaps
C14_Witness ==
    /\ NonEmpty(fr) /\ fr.tileMode = "decal" /\ fr.colorFilter = NoFilter
    /\ fr.layerBounds = ImageBounds(fr)
    /\ \E d \in Outputs, crop \in Crops :
          ~Intersects(crop, fr.layerBounds) /\ Intersects(crop, d)

\* applyCrop([0,0,10,10], mirror) of the 10x10 image under [-10,-10,0,0]
MirroredImage10 ==
    applyCrop(Image10, Rect(-10, -10, 0, 0), Rect(0, 0, 10, 10), "mirror",
              NextBackend, NoFailure)
\* an applyCrop that mirrored an untransformed image into one odd period
MirroredOnce ==
    /\ op.name = "applyCrop" /\ op.tileMode = "mirror"
    /\ SinglePeriod(op.tileMode, op.crop, ctx)
    /\ prev.transform = Identity /\ NonEmpty(fr) /\ be.marks = 0
    /\ fr.transform.sx = -1

\* C15 as stated: for the 10x10 image, applyCrop([0,0,10,10], mirror) with
\* desired output [-10,-10,0,0] makes no surface and gives the transform
\* scale(-1,-1) translate(10,10).
C15_MirrorTranslatesByCrop ==
    /\ MirroredImage10.bk.marks = 0
    /\ MirroredImage10.fr.transform \in {Matrix(-1, -1, 20, 20), Matrix(-1, -1, -20, -20)}
\* C15, amended: that applyCrop makes no surface and gives the transform
\* scale(-1,-1) with no translation, the reflection of [0,10]x[0,10] onto
\* [-10,0]x[-10,0]; in general the single visible mirror period is the crop
\* reflected onto the period that holds the desired output.
C15_MirrorReflectsOntoOutput ==
    /\ MirroredImage10.bk.marks = 0 /\ MirroredImage10.bk.calls = 0
    /\ MirroredImage10.fr.transform = Matrix(-1, -1, 0, 0)
    /\ MirroredImage10.fr.image = Image10.image
    /\ MirroredImage10.fr.layerBounds = Rect(-10, -10, 0, 0)
    /\ MirroredOnce =>
          /\ fr.transform = periodic_axis_transform(op.tileMode, op.crop, ctx).m
          /\ Within(ctx, MapIRect(fr.transform, op.crop))
\* the 4x4 image mirrored into the period to the right of its crop
C15_Witness ==
    /\ MirroredOnce /\ op.crop = Rect(0, 0, 4, 4) /\ ctx = Rect(4, 0, 8, 4)
    /\ fr.transform = Matrix(-1, 1, 16, 0) /\ fr.image = prev.image

\* a non-empty decal-tiled image that meets the desired output d without
\* covering it
PartlyCovers(f, d) ==
    /\ NonEmpty(f) /\ f.tileMode = "decal"
    /\ Intersects(f.layerBounds, d) /\ Intersects(ImageBounds(f), d)
    /\ ~Within(d, ImageBounds(f))
\* applyColorFilter gave a result for a filter that affects transparent black
FilledPartlyCovered ==
    /\ op.name = "applyColorFilter" /\ affectsTransparentBlack(op.cf)
    /\ PartlyCovers(prev, ctx) /\ NonEmpty(fr)
\* the 10x10 image filtered under [0,0,20,20]
FilteredImage10 ==
    applyColorFilter(Image10, Rect(0, 0, 20, 20), CF_Invert, NextBackend, NoFailure)

\* C16 as stated: applyColorFilter with a filter that affects transparent
\* black, on a non-empty decal-tiled image that intersects but does not cover
\* the desired output D, gives tile mode clamp and layerBounds = D; so for
\* the 10x10 image and D = [0,0,20,20].
C16_FillingFilterClamps ==
    /\ FilledPartlyCovered => (fr.tileMode = "clamp" /\ fr.layerBounds = ctx)
    /\ FilteredImage10.fr.tileMode = "clamp"
    /\ FilteredImage10.fr.layerBounds = Rect(0, 0, 20, 20)
\* C16, amended: the result has layerBounds = D; when the receiver's layer
\* bounds crop its image the receiver is resolved and the result is
\* clamp-tiled, otherwise the result is the receiver itself, still
\* decal-tiled, with the new filter composed after its own and no surface
\* made; the latter for the 10x10 image and D = [0,0,20,20].
C16_FillingFilterFillsOutput ==
    /\ FilledPartlyCovered =>
          /\ fr.layerBounds = ctx
          /\ IF analyzeBounds(prev, Identity, ctx).kRequiresLayerCrop
             THEN fr.tileMode = "clamp" /\ fr.colorFilter = op.cf
             ELSE /\ fr = [prev EXCEPT !.layerBounds = ctx,
                                       !.colorFilter = ComposeCF(op.cf, prev.colorFilter)]
                  /\ be.marks = 0
    /\ FilteredImage10.fr = [Image10 EXCEPT !.layerBounds = Rect(0, 0, 20, 20),
                                            !.colorFilter = CF_Invert]
    /\ FilteredImage10.bk.marks = 0
\* the untouched source image filtered under an output larger than it
C16_Witness ==
    /\ FilledPartlyCovered /\ fr.tileMode = "decal" /\ be.marks = 0
    /\ prev.colorFilter = NoFilter /\ prev.layerBounds = ImageBounds(prev)
    /\ Within(prev.layerBounds, ctx) /\ fr.layerBounds # prev.layerBounds
\* a cropped image that had to be resolved before it was filtered
C16_ResolvedWitness ==
    /\ FilledPartlyCovered /\ fr.tileMode = "clamp" /\ be.marks > 0

QEq(a, b) == a.n * b.d = b.n * a.d
\* downscale_step_count ran for this factor
Counted(factor) == rs.count # -1 /\ QEq(rs.factor, factor)

\* C17 as stated: the downscale step count is 3 for scale 0.1, with step
\* scales 0.5, 0.5, 0.4; 1 for scale 0.49; and 0 for scale 0.81.
C17_StepCounts ==
    /\ Counted(Q(1, 10)) => rs.count = 3
    /\ Counted(Q(49, 100)) => rs.count = 1
    /\ Counted(Q(81, 100)) => rs.count = 0
\* C17, amended: the count is 3 for 0.1, with step scales 0.5, 0.5, 0.4; 1
\* for 0.49; and 1 for 0.81, whose one step has scale 0.81: a single step
\* is only dropped for a factor of at least 0.999.
C17_StepCountsNearIdentity ==
    /\ Counted(Q(1, 10)) =>
          /\ rs.count = 3
          /\ (rs.steps = 0 =>
                /\ Len(rs.taken) = 3
                /\ QEq(rs.taken[1], Q(1, 2)) /\ QEq(rs.taken[2], Q(1, 2))
                /\ QEq(rs.taken[3], Q(2, 5)))
    /\ Counted(Q(49, 100)) => rs.count = 1
    /\ Counted(Q(81, 100)) =>
          /\ rs.count = 1
          /\ (rs.steps = 0 => (Len(rs.taken) = 1 /\ QEq(rs.taken[1], Q(81, 100))))
    /\ rs.count = 0 => QGeq(rs.factor, Q(999, 1000))
    /\ (rs.count > 0 /\ rs.steps = 0) =>
          QEq(rs.stepW, QMul(QInt(SrcSize), rs.factor))
\* the rescale by 0.81 after its one step
C17_Witness ==
    /\ Counted(Q(81, 100)) /\ rs.count = 1 /\ rs.steps = 0 /\ Len(rs.taken) = 1
\* the rescale by 0.1 after its three steps
C17_TenthWitness ==
    /\ Counted(Q(1, 10)) /\ rs.count = 3 /\ rs.steps = 0 /\ Len(rs.taken) = 3

\* the last operation was an applyCrop with the new tile mode decal
DecalCropped == op.name = "applyCrop" /\ op.tileMode = "decal"
\* the image of f lies at an integer origin and f shows all of it
ShowsWholeImage(f) ==
    /\ NonEmpty(f) /\ f.tileMode = "decal"
    /\ is_nearly_integer_translation(f.transform)
    /\ f.layerBounds = ImageBounds(f)

\* C18: applyCrop with the new tile mode decal never creates an offscreen
\* surface, and its non-empty result has layerBounds inside crop, inside the
\* receiver's layerBounds and inside the desired output; a decal image at an
\* integer origin, cropped to its own bounds under a desired output equal to
\* those bounds, keeps its image and its layer bounds.
C18_DecalCropMakesNoSurface ==
    /\ DecalCropped =>
          /\ be.marks = 0 /\ be.calls = 0
          /\ NonEmpty(fr) =>
                /\ Within(fr.layerBounds, op.crop)
                /\ Within(fr.layerBounds, prev.layerBounds)
                /\ Within(fr.layerBounds, ctx)
    /\ ShowsWholeImage(fr) =>
          \A r \in {applyCrop(fr, fr.layerBounds, fr.layerBounds, "decal",
                              NextBackend, NoFailure)} :
              /\ r.fr.image = fr.image /\ r.fr.layerBounds = fr.layerBounds
              /\ r.fr.transform = fr.transform /\ r.fr.tileMode = "decal"
              /\ r.bk.marks = 0
    /\ \A r \in {applyCrop(Image10, Rect(0, 0, 10, 10), Rect(0, 0, 10, 10), "decal",
                           NextBackend, NoFailure)} :
          r.fr = Image10 /\ r.bk.marks = 0
\* a decal crop that cut the layer bounds of a receiver whose transform is
\* no integer translation
C18_Witness ==
    /\ DecalCropped /\ NonEmpty(fr)
    /\ ~is_nearly_integer_translation(prev.transform)
    /\ fr.layerBounds # prev.layerBounds /\ fr.layerBounds # op.crop
    /\ fr.layerBounds # ctx
\* a decal crop that took a part of the receiver's image
C18_SubsetWitness ==
    /\ DecalCropped /\ NonEmpty(fr) /\ fr.image # prev.image
\* a moved image that shows all of itself
C18_WholeWitness ==
    /\ ShowsWholeImage(fr) /\ fr.transform # Identity /\ fr.colorFilter # NoFilter

\* decomposeCTM was called where layer space may be the whole ctm
LayerMayBeCtm ==
    /\ mcall.name = "decomposeCTM"
    /\ \/ mcall.capability = "Complex"
       \/ (mcall.capability = "ScaleTranslate" /\ isScaleTranslate(mcall.arg))

\* C19: decomposeCTM returns false exactly when the remainder it computed has
\* no inverse, adjustLayerSpace exactly when its layer argument is singular;
\* a call that returns false leaves the three matrices as they were; with
\* capability ScaleTranslate and a scale-translate ctm, or with capability
\* Complex, decomposeCTM succeeds with layer = ctm and remainder = identity.
C19_MappingFailsOnSingular ==
    /\ mcall.name = "decomposeCTM" => (~mcall.ok <=> AffDet(mcall.remainder) = 0)
    /\ mcall.name = "adjustLayerSpace" => (~mcall.ok <=> AffDet(mcall.arg) = 0)
    /\ (mcall.name # "none" /\ ~mcall.ok) => mapping = mcall.before
    /\ LayerMayBeCtm =>
          /\ mcall.ok /\ mcall.remainder = AffI
          /\ mapping = [paramToLayer |-> mcall.arg, layerToDev |-> AffI,
                        devToLayer |-> AffI]
\* a decomposeCTM that split a singular ctm with skew and failed, on a
\* Mapping an earlier call had set
C19_Witness ==
    /\ mcall.name = "decomposeCTM" /\ ~mcall.ok /\ mcall.capability = "ScaleTranslate"
    /\ mcall.remainder # mcall.arg /\ mapping # NewMapping
\* an adjustLayerSpace that failed on a Mapping an earlier call had set
C19_AdjustWitness ==
    /\ mcall.name = "adjustLayerSpace" /\ ~mcall.ok /\ mapping # NewMapping
\* a singular ctm taken whole as the layer matrix
C19_SingularLayerWitness ==
    /\ LayerMayBeCtm /\ AffDet(mcall.arg) = 0 /\ mcall.ok

\* the Recorder called add and has what the call returned
Added(r) == recorders[r].pc = "done" /\ recorders[r].mine # 0
\* the Recorder has the pipeline of its key, from a find or from an add
Served(r) == recorders[r].pc = "done"

\* C20: whatever the interleaving of the find and add calls of concurrent
\* Recorders on a key, every add call returns the pipeline the first add
\* call on that key passed in, which the cache holds; the pipelines of the
\* later callers are not stored; so every Recorder ends with the same
\* pipeline for the key.
C20_FirstAddWins ==
    /\ \A r \in Recorders :
          Added(r) =>
              /\ firstAdded[recorders[r].kind][recorders[r].key] # 0
              /\ recorders[r].got = firstAdded[recorders[r].kind][recorders[r].key]
    /\ \A r \in Recorders :
          Served(r) =>
              lruFind(pipelines[recorders[r].kind], recorders[r].key).pipeline
                  = recorders[r].got
    /\ \A r, q \in Recorders :
          (/\ Served(r) /\ Served(q)
           /\ recorders[r].kind = recorders[q].kind
           /\ recorders[r].key = recorders[q].key)
              => recorders[r].got = recorders[q].got
    /\ \A kind \in PipelineKinds, key \in UniqueKeys :
          lruFind(pipelines[kind], key).pipeline = firstAdded[kind][key]
\* two Recorders raced for a key, both added, and the later one got the
\* pipeline of the earlier; a third found it
C20_Witness ==
    \E r, q, p \in Recorders :
        /\ Added(r) /\ Added(q) /\ r # q
        /\ recorders[r].kind = recorders[q].kind /\ recorders[r].key = recorders[q].key
        /\ recorders[r].got = r /\ recorders[q].got = r
        /\ Served(p) /\ recorders[p].mine = 0 /\ recorders[p].got = r

\* the last applyCrop got past its empty results and its periodic collapse
ReachedFit ==
    /\ op.name = "applyCrop" /\ ~IsEmpty(op.crop) /\ ~IsEmpty(ctx) /\ NonEmpty(prev)
    /\ Intersects(op.crop, prev.layerBounds)
    /\ Intersects(RawIntersect(op.crop, prev.layerBounds),
                  relevantSubset(op.crop, ctx, op.tileMode))
    /\ ~periodic_axis_transform(op.tileMode, relevantSubset(op.crop, ctx, op.tileMode),
                                ctx).some
\* the crop and tile mode that applyCrop chose
LastFit ==
    fitCrop(prev, ctx, op.tileMode,
            RawIntersect(RawIntersect(op.crop, prev.layerBounds),
                         relevantSubset(op.crop, ctx, op.tileMode)),
            relevantSubset(op.crop, ctx, op.tileMode))
\* img shows a part of the pixels of whole
SubImageOf(img, whole) ==
    /\ img.id = whole.id /\ img.bw = whole.bw /\ img.bh = whole.bh
    /\ whole.x <= img.x /\ img.x + img.w <= whole.x + whole.w
    /\ whole.y <= img.y /\ img.y + img.h <= whole.y + whole.h
\* what the analytic path of applyCrop gives
ExtractedFromReceiver(tileMode) ==
    /\ be.marks = 0 /\ be.calls = 0
    /\ NonEmpty(fr) =>
          /\ SubImageOf(fr.image, prev.image)
          /\ is_nearly_integer_translation(fr.transform)
          /\ MapIRect(fr.transform, Rect(0, 0, fr.image.w, fr.image.h))
                = MapIRect(prev.transform,
                           Rect(fr.image.x - prev.image.x, fr.image.y - prev.image.y,
                                fr.image.x - prev.image.x + fr.image.w,
                                fr.image.y - prev.image.y + fr.image.h))
          /\ fr.tileMode = tileMode
          /\ fr.colorFilter = prev.colorFilter

\* C21 as stated: past the empty results and the periodic collapse, when the
\* receiver's transform is a near-integer translation and either the old and
\* the new tile mode are both clamp or analyzeBounds(fittedCrop) has no
\* layer-filling effect, applyCrop extracts a sub-image of the receiver's
\* image, makes no surface, sets the new tile mode and keeps the receiver's
\* color filter.
C21_IntegerCropExtracts ==
    (/\ ReachedFit
     /\ is_nearly_integer_translation(prev.transform)
     /\ \/ (prev.tileMode = "clamp" /\ op.tileMode = "clamp")
        \/ ~analyzeBounds(prev, Identity, LastFit.fittedCrop).kHasLayerFillingEffect)
        => ExtractedFromReceiver(op.tileMode)
\* C21, amended: the same when, besides, the crop holds no transparency that
\* must be kept (preserveTransparencyInCrop is false); the tile mode set is
\* the new one, or decal when the fitted crop covers the desired output.
C21_OpaqueIntegerCropExtracts ==
    (/\ ReachedFit
     /\ ~LastFit.preserve
     /\ is_nearly_integer_translation(prev.transform)
     /\ \/ (prev.tileMode = "clamp" /\ LastFit.tileMode = "clamp")
        \/ ~analyzeBounds(prev, Identity, LastFit.fittedCrop).kHasLayerFillingEffect)
        => ExtractedFromReceiver(LastFit.tileMode)
\* a clamp crop of a clamp-tiled receiver that took a part of its image
C21_Witness ==
    /\ ReachedFit /\ ~LastFit.preserve /\ is_nearly_integer_translation(prev.transform)
    /\ prev.tileMode = "clamp" /\ LastFit.tileMode = "clamp"
    /\ NonEmpty(fr) /\ fr.image # prev.image
\* a crop with transparency to keep, resolved into a surface
C21_ResolvedWitness ==
    /\ ReachedFit /\ LastFit.preserve /\ is_nearly_integer_translation(prev.transform)
    /\ be.marks > 0 /\ NonEmpty(fr)

\* applyColorFilter resolved a receiver whose layer bounds crop its image,
\* for a filter that affects transparent black
FilledCropped ==
    /\ op.name = "applyColorFilter" /\ affectsTransparentBlack(op.cf)
    /\ NonEmpty(prev) /\ Intersects(prev.layerBounds, ctx)
    /\ analyzeBounds(prev, Identity, ctx).kRequiresLayerCrop
    /\ NonEmpty(fr)
\* the rectangle that applyColorFilter resolves the receiver over
ResolvedBounds ==
    IntersectOr(Outset(RawIntersect(prev.layerBounds, ctx), 1, 1), ctx)

\* C22 as stated: applyColorFilter with a filter that affects transparent
\* black, on a receiver for which analyzeBounds(desiredOutput) has
\* RequiresLayerCrop, returns tile mode clamp and layerBounds equal to
\* desiredOutput cut by the receiver's layerBounds outset by one pixel.
C22_FilledCropKeepsOutsetBounds ==
    FilledCropped =>
        /\ fr.tileMode = "clamp"
        /\ fr.layerBounds = RawIntersect(ctx, Outset(prev.layerBounds, 1, 1))
\* C22, amended: it returns tile mode clamp and layerBounds equal to the
\* desired output; the image, with the new filter alone pending on it, is
\* the receiver resolved over the desired output cut by the visible layer
\* bounds outset by one pixel.
C22_FilledCropFillsOutput ==
    FilledCropped =>
        /\ fr.tileMode = "clamp"
        /\ fr.layerBounds = ctx
        /\ fr.colorFilter = op.cf
        /\ ImageBounds(fr) = ResolvedBounds
        /\ be.marks = 1
\* a resolve over less than the desired output
C22_Witness ==
    /\ FilledCropped /\ ResolvedBounds # ctx /\ ImageBounds(fr) # ctx
    /\ prev.colorFilter # NoFilter

IsLinear(s) == ~isAniso(s) /\ ~s.useCubic /\ s.filter = "linear"
IsNearest(s) == ~isAniso(s) /\ ~s.useCubic /\ s.filter = "nearest"
\* the table of merged samplings: [ok, sampling]
SamplingTable(cur, curNear, next, nextNear) ==
    IF isAniso(cur) /\ isAniso(next)
    THEN [ok |-> TRUE, sampling |-> AnisoSampling(Max(cur.maxAniso, next.maxAniso))]
    ELSE IF isAniso(cur) /\ IsLinear(next) THEN [ok |-> TRUE, sampling |-> cur]
    ELSE IF IsLinear(cur) /\ isAniso(next) THEN [ok |-> TRUE, sampling |-> next]
    ELSE IF cur.useCubic /\ IsLinear(next) THEN [ok |-> TRUE, sampling |-> cur]
    ELSE IF cur.useCubic /\ next.useCubic /\ cur.cubic = next.cubic
    THEN [ok |-> TRUE, sampling |-> cur]
    ELSE IF IsLinear(cur) /\ next.useCubic THEN [ok |-> TRUE, sampling |-> next]
    ELSE IF IsLinear(cur) /\ IsLinear(next) THEN [ok |-> TRUE, sampling |-> next]
    ELSE IF IsLinear(cur) /\ curNear /\ IsNearest(next)
    THEN [ok |-> TRUE, sampling |-> next]
    ELSE IF IsNearest(cur) /\ nextNear /\ IsLinear(next)
    THEN [ok |-> TRUE, sampling |-> cur]
    ELSE [ok |-> FALSE, sampling |-> next]
\* C23: compatible_sampling reports compatible, with the merged sampling of
\* the table, for the combinations the table lists, and incompatible for
\* every other combination of samplings and near-integer flags.
C23_SamplingFollowsTable ==
    call.fn = "compatible_sampling" =>
        \A t \in {SamplingTable(call.args[1], call.args[2], call.args[3], call.args[4])} :
            /\ call.result.ok = t.ok
            /\ t.ok => call.result.sampling = t.sampling

\* analyzeBounds was called on a decal-tiled receiver whose sampling is not
\* nearest-neighbor and whose net scale factors are not both near 1
DecalNeedsLayerSpace ==
    /\ call.fn = "analyzeBounds"
    /\ call.args[1].tileMode = "decal"
    /\ call.args[1].sampling # kNearestNeighbor
    /\ ~nearUnitScales(postConcat(call.args[1].transform, call.args[2]))
\* the center of some pixel of the sampled destination maps outside the image
\* inset by the sample radius
SamplesOutsideSafe ==
    LET f == call.args[1]
        net == postConcat(f.transform, call.args[2])
        radius == IF f.sampling.useCubic THEN 3 ELSE 1
        eps == IF f.sampling = kDefaultSampling /\ ~is_nearly_integer_translation(net)
               THEN 1 ELSE 0
        sampled == IF call.result.bounds.kRequiresLayerCrop
                   THEN IntersectOr(call.args[3], MapIRect(call.args[2], f.layerBounds))
                   ELSE call.args[3]
        \* the center c of a pixel (in half pixels) against the image edges
        \* 'radius' inside 0 and 'size'
        outside(c, scale, trans, size) ==
            LET lo == Min(scale * radius, scale * (2 * size - radius)) + trans
                hi == Max(scale * radius, scale * (2 * size - radius)) + trans
            IN \/ 2 * size - radius <= radius
               \/ c < lo \/ c > hi
               \/ (c \in {lo, hi} /\ Abs(scale) * eps > 1)
    IN \E x \in sampled.l..(sampled.r - 1), y \in sampled.t..(sampled.b - 1) :
          \/ outside(2 * x + 1, net.sx, net.tx, f.image.w)
          \/ outside(2 * y + 1, net.sy, net.ty, f.image.h)

\* C24 as stated: analyzeBounds sets RequiresDecalInLayerSpace whenever the
\* tile mode is Decal, the sampling is not nearest-neighbor and the net scale
\* factors are not both within 20% of 1, wherever the destination's pixel
\* centers fall; and never for another tile mode.
C24_DecalInLayerSpaceUnconditional ==
    /\ DecalNeedsLayerSpace => call.result.tiling.kRequiresDecalInLayerSpace
    /\ (call.fn = "analyzeBounds" /\ call.args[1].tileMode # "decal")
           => ~call.result.tiling.kRequiresDecalInLayerSpace

\* C24: analyzeBounds sets RequiresDecalInLayerSpace exactly when the tile
\* mode is Decal, the sampling is not nearest-neighbor, the net scale factors
\* are not both within 20% of 1, and the center of some pixel of the sampled
\* destination falls outside the safe image rectangle.
C24_DecalInLayerSpaceWhenSampledOutside ==
    call.fn = "analyzeBounds" =>
        (call.result.tiling.kRequiresDecalInLayerSpace
            <=> (DecalNeedsLayerSpace /\ SamplesOutsideSafe))
\* a scaled decal image that covers the destination with room to spare
C24_Witness ==
    /\ DecalNeedsLayerSpace
    /\ ~SamplesOutsideSafe
    /\ ~call.result.tiling.kRequiresDecalInLayerSpace
\* a scaled decal image sampled beyond its edge
C24_FlaggedWitness ==
    DecalNeedsLayerSpace /\ call.result.tiling.kRequiresDecalInLayerSpace

\* the crop pixel that tiling the interval [lo, lo + size) shows at pixel x
TiledPixel(tileMode, x, lo, size) ==
    IF tileMode = "mirror" /\ FloorDiv(x - lo, size) % 2 = 1
    THEN lo + size - 1 - ((x - lo) % size)
    ELSE lo + ((x - lo) % size)
\* the source pixel that a scale of 1 or -1 and a translation of trans half
\* pixels places at pixel x
SourcePixel(scale, trans, x) ==
    IF scale = 1 THEN x - (trans \div 2) ELSE (trans \div 2) - 1 - x
\* periodic_axis_transform returned a transform
Periodic == call.fn = "periodic_axis_transform" /\ call.result.some

\* C25: a transform that periodic_axis_transform returns places the source
\* where tiling the crop would: every pixel of output shows the crop pixel
\* that Repeat or Mirror tiling selects; Repeat gives the translation by
\* (periodL * cropWidth, periodT * cropHeight), Mirror flips an axis exactly
\* in its odd periods, negative ones included; Clamp and Decal give nothing.
C25_PeriodicTransformTiles ==
    call.fn = "periodic_axis_transform" =>
        LET tileMode == call.args[1]
            crop == call.args[2]
            output == call.args[3]
            m == call.result.m
            periodL == FloorDiv(output.l - crop.l, crop.r - crop.l)
            periodT == FloorDiv(output.t - crop.t, crop.b - crop.t)
        IN /\ tileMode \in {"clamp", "decal"} => ~call.result.some
           /\ call.result.some =>
                /\ m.sx \in {1, -1} /\ m.sy \in {1, -1} /\ m.tx % 2 = 0 /\ m.ty % 2 = 0
                /\ \A x \in output.l..(output.r - 1), y \in output.t..(output.b - 1) :
                      /\ SourcePixel(m.sx, m.tx, x)
                           = TiledPixel(tileMode, x, crop.l, crop.r - crop.l)
                      /\ SourcePixel(m.sy, m.ty, y)
                           = TiledPixel(tileMode, y, crop.t, crop.b - crop.t)
                /\ tileMode = "repeat" =>
                      m = Translate(periodL * (crop.r - crop.l),
                                    periodT * (crop.b - crop.t))
                /\ tileMode = "mirror" =>
                      /\ (m.sx = -1) <=> (periodL % 2 = 1)
                      /\ (m.sy = -1) <=> (periodT % 2 = 1)
\* a mirrored crop shown in a negative odd period of x
C25_Witness ==
    /\ Periodic
    /\ call.args[1] = "mirror"
    /\ FloorDiv(call.args[3].l - call.args[2].l, call.args[2].r - call.args[2].l) = -1
    /\ call.result.m.sx = -1
\* a repeated crop shown two periods away
C25_RepeatWitness ==
    /\ Periodic
    /\ call.args[1] = "repeat"
    /\ call.result.m = Translate(2 * (call.args[2].r - call.args[2].l), 0)

\* what holds of the clip stack at every step of a draw that preserves the
\* device state: a push only under a layer crop with a blender that keeps
\* transparent black, at most one entry pushed and not yet popped and only
\* between the clip and the end of the draw, and the stack as deep on return
\* as on entry
ClipStackKept ==
    dr.preserveDeviceState =>
        /\ dr.pushes > 0 => (dr.analysis.kRequiresLayerCrop /\ ~blendAffectsTransparentBlack)
        /\ dr.pushes - dr.pops \in {0, 1}
        /\ Len(dr.clip) = 1 + dr.pushes - dr.pops
        /\ dr.pushes > dr.pops => dr.pc \in {"paint", "painted"}
        /\ dr.pc = "returned" => (dr.pushes = dr.pops /\ Len(dr.clip) = 1)
\* the outermost draw has returned
DrawReturned == dr.pc = "returned" /\ dr.frames = 1

\* C26: draw with preserveDeviceState leaves the depth of the device's clip
\* stack unchanged on every path: pushClipStack is called only under
\* RequiresLayerCrop with a blender that keeps transparent black, every push
\* is followed by one popClipStack before draw returns, and every early
\* return comes before any push.
C26_ClipStackRestored ==
    /\ []ClipStackKept
    /\ (dr.preserveDeviceState /\ dr.pushes > dr.pops)
           ~> (DrawReturned /\ dr.pushes = dr.pops /\ Len(dr.clip) = 1)
    /\ (dr.pc = "entry") ~> DrawReturned
\* a draw that pushed the clip stack, popped it and returned
C26_Witness ==
    /\ DrawReturned /\ dr.preserveDeviceState
    /\ dr.pushes = 1 /\ dr.pops = 1 /\ Len(dr.clip) = 1
\* a draw that returned early after resolving, never pushing
C26_EarlyWitness ==
    /\ DrawReturned /\ dr.preserveDeviceState /\ dr.calls = 2 /\ dr.pushes = 0

\* C30: the recursion of draw is at most one call deep: the FilterResult that
\* draw resolves and then draws is empty or needs no layer crop under the
\* same device matrix and clip, so the inner call never resolves again.
C30_DrawRecursesOnce ==
    /\ dr.frames <= 2 /\ dr.calls <= 2
    /\ dr.calls = 2 =>
          /\ Len(dr.clip) = 1
          /\ \/ dr.f.image = NoImage
             \/ ~analyzeBounds(dr.f, dr.localToDevice, devClipBounds).kRequiresLayerCrop
\* a draw that resolved a cropped receiver into an image and drew that
C30_Witness ==
    /\ DrawReturned /\ dr.calls = 2 /\ dr.f.image # NoImage
    /\ dr.drawn # "nothing" /\ dr.bk.marks = 1
\* a draw whose resolve made no image
C30_EmptyWitness ==
    /\ DrawReturned /\ dr.calls = 2 /\ dr.f.image = NoImage /\ dr.drawn = "clear"

\* the last operation was a rescale whose loop ended with an image: it went
\* on to rebuild the FilterResult
ReachedWrapUp == op.name = "rescale" /\ be.iters > 0 /\ fr.image # NoImage
\* the tile mode rescale's loop ends with
LoopTileMode ==
    IF /\ canDeferTiling(prev, ctx, op.enforceDecal)
       /\ analyzeBounds(prev, Identity, ctx).kHasLayerFillingEffect
       /\ prev.tileMode # "decal"
    THEN prev.tileMode ELSE "clamp"

\* C27: whenever rescale reaches its wrap-up with enforceDecal, tiling was not
\* deferred and the working tile mode is Clamp: the assertion before the
\* switch back to Decal holds for every receiver and every scale.
C27_EnforcedDecalNeverDeferred ==
    (ReachedWrapUp /\ op.enforceDecal) =>
        (~canDeferTiling(prev, ctx, TRUE) /\ LoopTileMode = "clamp")

\* C28: after any decomposeCTM and adjustLayerSpace calls, devToLayer is the
\* inverse of layerToDevice, and layerToDevice after paramToLayer is the
\* matrix decomposed last: adjustLayerSpace changes the layer space, not the
\* mapping from parameter space to the device.
C28_MappingKeepsTotal ==
    /\ AffConcat(mapping.devToLayer, mapping.layerToDev) = AffI
    /\ AffConcat(mapping.layerToDev, mapping.devToLayer) = AffI
    /\ AffConcat(mapping.layerToDev, mapping.paramToLayer) = mcall.ctm
\* a rotated and scaled matrix decomposed, and the layer space then adjusted
C28_Witness ==
    /\ mcall.name = "adjustLayerSpace" /\ mcall.ok
    /\ mcall.ctm = Aff(0, -2, 2, 0, 0, 1)
    /\ mcall.before.layerToDev # AffI
    /\ mapping.paramToLayer # mcall.before.paramToLayer

\* C29: the loop of rescale runs at most max(1, xSteps, ySteps) times, with
\* one surface each, whatever the backend does: rescale returns empty at the
\* first surface that cannot be made, and does not go round again when a
\* surface snaps to no image with both step counts at zero.
C29_RescaleLoopBounded ==
    op.name = "rescale" =>
        /\ be.iters <= Max(1, Max(downscale_step_count(op.scale.w),
                                  downscale_step_count(op.scale.h)))
        /\ be.marks = be.iters
        /\ be.firstFail > 0 => (fr = EmptyResult /\ be.calls = be.firstFail)

=============================================================================
